---- MODULE Spec2Model ----
(***************************************************************************)
(* A model of the Savigny schema transpiler: the noise-tolerant tokenizer  *)
(* (custom_tokenizer.c), the grammar of schema_parser.y, the configuration *)
(* validator (config_validator.c), the code generator (schema_types.c)     *)
(* and main().  Texts are TLA+ strings handled character by character, as  *)
(* the C code handles them.                                                *)
(***************************************************************************)
EXTENDS Integers, Sequences, FiniteSets, TLC

VARIABLES
    lex,          \* the tokenizer states, one per tokenizer run (a sequence)
    parser,       \* yyparse's state: position in the grammar, semantic values
    config,       \* the loaded configuration document, or NoConfig
    schema,       \* the Schema main() holds (NoSchema while there is none)
    kelsen_code,  \* the generated statements (NoCode while there are none)
    pc,           \* where main() (or the function under check) stands
    exit_code,    \* the process exit code (-1 while running)
    query,        \* the argument of the validator call under check
    answer,       \* the result of the validator call under check
    argv          \* what main() is run on: the input file and the configuration

vars == <<lex, parser, config, schema, kelsen_code, pc, exit_code, query, answer, argv>>

(***************************************************************************)
(* Characters and the C library calls the code relies on.                  *)
(***************************************************************************)
UpperAlpha == "ABCDEFGHIJKLMNOPQRSTUVWXYZ"
LowerAlpha == "abcdefghijklmnopqrstuvwxyz"
DigitChars == "0123456789"

CharAt(s, i) == SubSeq(s, i, i)

\* the position of character c in alphabet, 0 when it is not there
IndexOf(alphabet) ==
    [c \in {CharAt(alphabet, i) : i \in 1..Len(alphabet)} |->
        CHOOSE i \in 1..Len(alphabet) : CharAt(alphabet, i) = c]

UpperIndex == IndexOf(UpperAlpha)
LowerIndex == IndexOf(LowerAlpha)
DigitIndex == IndexOf(DigitChars)

tolower(c) == IF c \in DOMAIN UpperIndex THEN CharAt(LowerAlpha, UpperIndex[c]) ELSE c

toupper(c) == IF c \in DOMAIN LowerIndex THEN CharAt(UpperAlpha, LowerIndex[c]) ELSE c

isdigit(c) == c \in DOMAIN DigitIndex

isupper(c) == c \in DOMAIN UpperIndex

isalnum(c) == c \in DOMAIN UpperIndex \/ c \in DOMAIN LowerIndex \/ c \in DOMAIN DigitIndex

isspace(c) == c \in {" ", "\t", "\n", "\r"}

RECURSIVE LowerStr(_)
LowerStr(s) == IF s = "" THEN "" ELSE tolower(CharAt(s, 1)) \o LowerStr(SubSeq(s, 2, Len(s)))

RECURSIVE UpperStr(_)
UpperStr(s) == IF s = "" THEN "" ELSE toupper(CharAt(s, 1)) \o UpperStr(SubSeq(s, 2, Len(s)))

\* strcasecmp(a, b) == 0
strcasecmp(a, b) == Len(a) = Len(b) /\ LowerStr(a) = LowerStr(b)

\* strstr(haystack, needle) != NULL
strstr(haystack, needle) ==
    \E i \in 1..(Len(haystack) + 1) :
        /\ i + Len(needle) - 1 <= Len(haystack)
        /\ SubSeq(haystack, i, i + Len(needle) - 1) = needle

\* atoi on the leading digits of s
RECURSIVE atoi_from(_, _)
atoi_from(s, acc) ==
    IF s # "" /\ isdigit(CharAt(s, 1))
    THEN atoi_from(SubSeq(s, 2, Len(s)), acc * 10 + (DigitIndex[CharAt(s, 1)] - 1))
    ELSE acc

atoi(s) == atoi_from(s, 0)

(***************************************************************************)
(* The tokenizer, custom_tokenizer.c.                                      *)
(***************************************************************************)
noise_words == <<
    "comienza", "como", "un", "una", "que", "en", "personas", "establecen",
    "dentro", "del", "dadas", "condiciones", "legales", "forma", "requerida",
    "la", "norma", "si", "hay", "de", "please", "hello", "maybe", "a", "al",
    "por", "con", "del", "esta", "incluye", "para", "su", "los", "las",
    "es", "son", "está", "están", "ha", "han", "fue", "fueron", "será", "serán",
    "&", "$", "el", "la", "Pero", "siguiente", "resolución", "lo", "proteger",
    "sus", "derechos", "e", "intereses" >>

is_separator(c) == isspace(c) \/ c \in {".", ",", ":", ";", "[", "]"}

is_noise_word(word) ==
    \E i \in 1..Len(noise_words) : strcasecmp(word, noise_words[i])

match_keyword(word, keyword) == strcasecmp(word, keyword)

\* strncasecmp(word, prefix, strlen(prefix)) == 0
starts_with(word, prefix) ==
    /\ Len(word) >= Len(prefix)
    /\ LowerStr(SubSeq(word, 1, Len(prefix))) = LowerStr(prefix)

is_number(word) ==
    LET len == IF Len(word) > 0 /\ CharAt(word, Len(word)) = "." THEN Len(word) - 1
               ELSE Len(word)
    IN  /\ \A i \in 1..len : isdigit(CharAt(word, i))
        /\ len > 0

\* A token: its type, and the yylval field the tokenizer sets for it.
Token(type, string, number) == [type |-> type, string |-> string, number |-> number]

EndOfInput == Token("EOF", "", 0)

\* fgets on the input file, whose lines end with "\n" except perhaps the last
read_line(lx) ==
    IF lx.fpos < Len(lx.file)
    THEN LET line == lx.file[lx.fpos + 1] IN
         [ok |-> TRUE,
          lx |-> [lx EXCEPT !.line_buffer = line,
                            !.line_position = 0,
                            !.fpos = @ + 1,
                            !.feof = (lx.fpos + 1 = Len(lx.file)
                                      /\ CharAt(line, Len(line)) # "\n"),
                            !.current_line = @ + 1,
                            !.current_column = 1]]
    ELSE [ok |-> FALSE, lx |-> [lx EXCEPT !.feof = TRUE]]

RECURSIVE skip_separators(_)
skip_separators(lx) ==
    IF lx.line_position < Len(lx.line_buffer)
    THEN LET c == CharAt(lx.line_buffer, lx.line_position + 1) IN
         IF is_separator(c)
         THEN IF c = "\n"
              THEN LET r == read_line(lx) IN
                   IF r.ok THEN skip_separators(r.lx) ELSE r.lx
              ELSE skip_separators([lx EXCEPT !.line_position = @ + 1,
                                              !.current_column = @ + 1])
         ELSE lx
    ELSE lx

\* the position where the word starting at line_position ends
RECURSIVE word_end(_, _)
word_end(buf, p) ==
    IF p < Len(buf) /\ ~is_separator(CharAt(buf, p + 1)) THEN word_end(buf, p + 1) ELSE p

extract_word(lx) ==
    LET start == lx.line_position
        stop == word_end(lx.line_buffer, start)
    IN  [word |-> SubSeq(lx.line_buffer, start + 1, stop),
         lx |-> [lx EXCEPT !.line_position = stop,
                           !.current_column = @ + (stop - start)]]

RECURSIVE quote_end(_, _)
quote_end(buf, p) ==
    IF p < Len(buf) /\ CharAt(buf, p + 1) # "\"" THEN quote_end(buf, p + 1) ELSE p

\* a variant that takes the last character before the end of the line buffer
\* for a closing quote
extract_quoted_string_closed(lx) ==
    LET start == lx.line_position + 1
        stop == quote_end(lx.line_buffer, start)
        closed == stop < Len(lx.line_buffer) /\ CharAt(lx.line_buffer, stop + 1) = "\""
        after == IF closed THEN stop + 1 ELSE stop
    IN  [word |-> SubSeq(lx.line_buffer, start + 1, IF closed THEN stop ELSE stop - 1),
         lx |-> [lx EXCEPT !.line_position = after,
                           !.current_column = @ + (after - lx.line_position)]]

extract_quoted_string(lx) ==
    LET start == lx.line_position + 1
        stop == quote_end(lx.line_buffer, start)
        closed == stop < Len(lx.line_buffer) /\ CharAt(lx.line_buffer, stop + 1) = "\""
        after == IF closed THEN stop + 1 ELSE stop
    IN  [word |-> SubSeq(lx.line_buffer, start + 1, stop),
         lx |-> [lx EXCEPT !.line_position = after,
                           !.current_column = @ + (after - lx.line_position)]]

\* yylex, lines 329-495: the classification of a surviving word
classify_word(w) ==
    IF strcasecmp(w, "[Institution]") THEN Token("INSTITUTION", "", 0)
    ELSE IF is_number(w) THEN Token("NUMBER", "", atoi(w))
    ELSE IF strcasecmp(w, "regla") THEN Token("REGLA", "", 0)
    ELSE IF match_keyword(w, "debe") THEN Token("DEBE", "", 0)
    ELSE IF match_keyword(w, "no-debe") THEN Token("NO_DEBE", "", 0)
    ELSE IF match_keyword(w, "puede") THEN Token("PUEDE", "", 0)
    ELSE IF match_keyword(w, "tiene-derecho-a") THEN Token("TIENE_DERECHO", "", 0)
    ELSE IF match_keyword(w, "en-caso-que") THEN Token("EN_CASO_QUE", "", 0)
    ELSE IF match_keyword(w, "y") THEN Token("Y", "", 0)
    ELSE IF match_keyword(w, "violación") \/ starts_with(w, "violacion")
         THEN Token("VIOLACION", "", 0)
    ELSE IF match_keyword(w, "entonces") THEN Token("ENTONCES", "", 0)
    ELSE IF match_keyword(w, "hecho") \/ starts_with(w, "hecho-juridico")
         THEN Token("HECHO", "", 0)
    ELSE IF match_keyword(w, "evidencia") THEN Token("EVIDENCIA", "", 0)
    ELSE IF match_keyword(w, "busca") THEN Token("BUSCA_ACTO", "", 0)
    ELSE IF match_keyword(w, "establezca") THEN Token("ESTABLEZCA", "", 0)
    ELSE IF match_keyword(w, "cumplimiento") THEN Token("CUMPLIMIENTO", "", 0)
    ELSE IF match_keyword(w, "incumplimiento") THEN Token("INCUMPLIMIENTO", "", 0)
    ELSE IF match_keyword(w, "adjudique") THEN Token("ADJUDIQUE", "", 0)
    ELSE IF starts_with(w, "lo-esencial") \/ match_keyword(w, "esencial")
         THEN Token("LO_ESENCIAL", "", 0)
    ELSE IF starts_with(w, "lo-siguiente") \/ match_keyword(w, "siguiente")
         THEN Token("LO_SIGUIENTE", "", 0)
    ELSE IF starts_with(w, "actua") THEN Token("ACTUA_SOBRE", "", 0)
    ELSE IF strcasecmp(w, "[Institution]") \/ strcasecmp(w, "Institution")
         THEN Token("INSTITUTION", "", 0)
    ELSE IF \/ match_keyword(w, "contrato") \/ match_keyword(w, "procedimiento")
            \/ match_keyword(w, "acto-juridico") \/ match_keyword(w, "hecho-juridico")
            \/ match_keyword(w, "acto") \/ match_keyword(w, "hecho")
         THEN Token("TIPO_INSTITUCION", w, 0)
    ELSE IF \/ match_keyword(w, "múltiples") \/ match_keyword(w, "multiples")
            \/ match_keyword(w, "multiple") \/ match_keyword(w, "una")
            \/ match_keyword(w, "single")
         THEN Token("MULTIPLICIDAD", w, 0)
    ELSE IF starts_with(w, "derecho-") THEN Token("DOMINIO_LEGAL", w, 0)
    ELSE IF isupper(CharAt(w, 1)) THEN Token("NOMBRE_INSTITUCION", w, 0)
    ELSE IF \/ starts_with(w, "el-") \/ starts_with(w, "la-")
            \/ \E r \in {"comprador", "vendedor", "arrendador", "arrendatario",
                         "acreedor", "deudor", "juez", "quejoso", "autoridad",
                         "trabajador", "empleador", "parte1", "parte2"} :
                   match_keyword(w, r)
         THEN Token("ROL", w, 0)
    ELSE Token("STRING", w, 0)

\* yylex, lines 281-327: skip separators and noise words up to the next token
RECURSIVE yylex_scan(_)
yylex_scan(lx0) ==
    LET lx == skip_separators(lx0) IN
    IF lx.line_position >= Len(lx.line_buffer) /\ lx.feof
    THEN [token |-> EndOfInput, lx |-> lx]
    ELSE IF /\ lx.line_position < Len(lx.line_buffer)
            /\ CharAt(lx.line_buffer, lx.line_position + 1) = "\""
    THEN LET q == extract_quoted_string(lx) IN
         [token |-> Token("STRING", q.word, 0), lx |-> q.lx]
    ELSE LET w == extract_word(lx) IN
         IF w.word = ""
         THEN LET r == read_line(w.lx) IN
              IF r.ok THEN yylex_scan(r.lx) ELSE [token |-> EndOfInput, lx |-> r.lx]
         ELSE IF is_noise_word(w.word) THEN yylex_scan(w.lx)
         ELSE [token |-> classify_word(w.word), lx |-> w.lx]

\* One call of yylex: the tokenizer state after it; `returned` keeps the tokens
\* handed out so far.
yylex(lx) ==
    LET r == yylex_scan(lx) IN [r.lx EXCEPT !.returned = Append(@, r.token)]

\* tokenizer_init: the state after the first read_line, or ok = FALSE
tokenizer_init(file) ==
    LET lx0 == [file |-> file, fpos |-> 0, feof |-> FALSE, line_buffer |-> "",
                line_position |-> 0, current_line |-> 0, current_column |-> 1,
                returned |-> <<>>]
    IN  read_line(lx0)

LastToken(lx) == lx.returned[Len(lx.returned)]

AtEndOfInput(lx) == lx.returned # <<>> /\ LastToken(lx) = EndOfInput

(***************************************************************************)
(* The configuration validator, config_validator.c.  A configuration       *)
(* document holds the arrays "instituciones", "tipos" and "dominios" and   *)
(* the object "roles" (institution name -> array of roles); an absent key  *)
(* behaves as an empty array in every function below.                      *)
(***************************************************************************)

\* cJSON_GetObjectItem(roles, key): the first member whose name equals key,
\* compared without regard to case; <<>> when there is none
RECURSIVE cJSON_GetObjectItem(_, _)
cJSON_GetObjectItem(object, key) ==
    IF object = <<>> THEN <<>>
    ELSE IF strcasecmp(Head(object).key, key) THEN Head(object).value
    ELSE cJSON_GetObjectItem(Tail(object), key)

\* the loop shared by the four membership tests
ArrayHasString(array, text) ==
    \E i \in 1..Len(array) : strcasecmp(array[i], text)

config_is_valid_institution(cfg, institution) ==
    cfg.loaded /\ ArrayHasString(cfg.instituciones, institution)

config_is_valid_type(cfg, type) ==
    cfg.loaded /\ ArrayHasString(cfg.tipos, type)

config_is_valid_domain(cfg, domain) ==
    cfg.loaded /\ ArrayHasString(cfg.dominios, domain)

config_is_valid_role_for_institution(cfg, institution, role) ==
    cfg.loaded /\ ArrayHasString(cJSON_GetObjectItem(cfg.roles, institution), role)

\* current_institution is a pointer: `set` says it is not NULL, `text` is the
\* string it was pointed at, and `freed` says that string's storage has been
\* released since.  CurrentInstitutionReads is what a read through it can find.
NullInstitution == [set |-> FALSE, text |-> "", freed |-> FALSE]

CurrentInstitutionReads(ci) ==
    IF ci.set /\ ci.freed THEN {ci.text, ""} ELSE {ci.text}

\* config_is_valid_role, with `seen` the string read through current_institution
config_is_valid_role(cfg, ci, seen, role) ==
    ci.set /\ config_is_valid_role_for_institution(cfg, seen, role)

config_get_institution_type(text) ==
    IF strcasecmp(text, "contrato") THEN "INST_CONTRACT"
    ELSE IF strcasecmp(text, "procedimiento") THEN "INST_PROCEDURE"
    ELSE IF strcasecmp(text, "acto jurídico") \/ strcasecmp(text, "acto-juridico")
         THEN "INST_LEGAL_ACT"
    ELSE IF strcasecmp(text, "hecho jurídico") \/ strcasecmp(text, "hecho-juridico")
         THEN "INST_LEGAL_FACT"
    ELSE "INST_CONTRACT"

config_get_multiplicity(text) ==
    IF \/ strcasecmp(text, "múltiples") \/ strcasecmp(text, "multiples")
       \/ strcasecmp(text, "multiple")
    THEN "MULT_MULTIPLE"
    ELSE IF strcasecmp(text, "una") \/ strcasecmp(text, "un") \/ strcasecmp(text, "single")
    THEN "MULT_SINGLE"
    ELSE "MULT_MULTIPLE"

\* One row of the dynamic-programming matrix: prev is row i-1, cur the part of
\* row i filled so far (cur[1] is matrix[i][0]), c the character s1[i-1].
RECURSIVE lev_row(_, _, _, _, _)
lev_row(prev, c, s2, j, cur) ==
    IF j > Len(s2) THEN cur
    ELSE LET cost == IF tolower(c) # tolower(CharAt(s2, j)) THEN 1 ELSE 0
             deletion == prev[j + 1] + 1
             insertion == cur[j] + 1
             substitution == prev[j] + cost
             m1 == IF insertion < deletion THEN insertion ELSE deletion
             m2 == IF substitution < m1 THEN substitution ELSE m1
         IN  lev_row(prev, c, s2, j + 1, Append(cur, m2))

RECURSIVE lev_rows(_, _, _, _)
lev_rows(s1, s2, i, prev) ==
    IF i > Len(s1) THEN prev[Len(s2) + 1]
    ELSE LET row == lev_row(prev, CharAt(s1, i), s2, 1, <<i>>) IN
         \* row i is complete (len2 + 1 cells) before row i + 1 is started
         IF Len(row) = Len(s2) + 1 THEN lev_rows(s1, s2, i + 1, row) ELSE -1

levenshtein_distance(s1, s2) ==
    lev_rows(s1, s2, 1, [j \in 1..(Len(s2) + 1) |-> j - 1])

MaxEdits == 3
NoDistance == 1000

NoSuggestion == [found |-> FALSE, value |-> "", min_distance |-> NoDistance]

\* the loop of config_suggest_institution and config_suggest_role over the
\* array: the suggestion so far and its distance
RECURSIVE suggest_loop(_, _, _, _)
suggest_loop(array, text, i, best) ==
    IF i > Len(array) THEN best
    ELSE LET distance == levenshtein_distance(text, array[i]) IN
         IF distance < best.min_distance /\ distance <= MaxEdits
         THEN suggest_loop(array, text, i + 1,
                           [found |-> TRUE, value |-> array[i], min_distance |-> distance])
         ELSE suggest_loop(array, text, i + 1, best)

suggest_in(array, text) == suggest_loop(array, text, 1, NoSuggestion)

config_suggest_institution(cfg, institution) ==
    IF ~cfg.loaded THEN NoSuggestion ELSE suggest_in(cfg.instituciones, institution)

\* `seen` is the string read through current_institution
config_suggest_role(cfg, ci, seen, role) ==
    IF ~cfg.loaded \/ ~ci.set THEN NoSuggestion
    ELSE suggest_in(cJSON_GetObjectItem(cfg.roles, seen), role)

(***************************************************************************)
(* The Schema and its constructors, schema_types.c lines 35-459.  The      *)
(* linked lists are sequences in list order.                               *)
(***************************************************************************)
NoScope == [present |-> FALSE, description |-> ""]

create_schema ==
    [allocated |-> TRUE,
     institution |-> [name |-> "", type |-> "INST_CONTRACT",
                      multiplicity |-> "MULT_MULTIPLE", legal_domain |-> ""],
     norms |-> <<>>, violations |-> <<>>, facts |-> <<>>, agendas |-> <<>>]

\* the Schema pointer NULL
NoSchema == [create_schema EXCEPT !.allocated = FALSE]

create_norm(number, role, deontic, action) ==
    [number |-> number, role |-> role, deontic |-> deontic, action |-> action,
     scope |-> NoScope, condition |-> <<>>]

add_scope_to_norm(norm, description) ==
    [norm EXCEPT !.scope = [present |-> TRUE, description |-> description]]

add_condition_to_norm(norm, description) ==
    [norm EXCEPT !.condition = Append(@, description)]

add_norm_to_schema(sch, norm) == [sch EXCEPT !.norms = Append(@, norm)]

create_violation(norm_number, role, deontic, consequence) ==
    [violated_norms |-> <<norm_number>>, role |-> role, deontic |-> deontic,
     consequence |-> consequence]

create_compound_violation(norm1, norm2, role, deontic, consequence) ==
    [create_violation(norm1, role, deontic, consequence)
        EXCEPT !.violated_norms = Append(@, norm2)]

add_violation_to_schema(sch, violation) ==
    [sch EXCEPT !.violations = Append(@, violation)]

create_legal_fact(description, evidence) ==
    [description |-> description, evidence |-> evidence]

add_fact_to_schema(sch, fact) == [sch EXCEPT !.facts = Append(@, fact)]

create_agenda(requesting_role, compliance, institution, beneficiary_role) ==
    [requesting_role |-> requesting_role, compliance |-> compliance,
     institution |-> institution, beneficiary_role |-> beneficiary_role,
     is_essential |-> FALSE, norm_remedies |-> <<>>]

set_agenda_essential(agenda, essential) == [agenda EXCEPT !.is_essential = essential]

add_norm_remedy_to_agenda(agenda, description) ==
    [agenda EXCEPT !.norm_remedies = Append(@, description)]

add_agenda_to_schema(sch, agenda) == [sch EXCEPT !.agendas = Append(@, agenda)]

set_institution(sch, name, type, multiplicity, legal_domain) ==
    [sch EXCEPT !.institution = [name |-> name, type |-> type,
                                 multiplicity |-> multiplicity,
                                 legal_domain |-> legal_domain]]

(***************************************************************************)
(* The parser, schema_parser.y.  `ps` names the position reached in the    *)
(* grammar (the item after the tokens shifted so far) and `sv` holds the   *)
(* semantic values of the production being recognised: n1, n2 its numbers, *)
(* s1..s3 its strings, op its deontic operator or compliance type and form *)
(* the alternative chosen.  One step takes one token from yylex and does   *)
(* the shift and the reductions (with their actions) it leads to.          *)
(***************************************************************************)
EmptySV == [n1 |-> 0, n2 |-> 0, s1 |-> "", s2 |-> "", s3 |-> "", op |-> "", form |-> 0]

DeonticTokens == {"DEBE", "NO_DEBE", "PUEDE", "TIENE_DERECHO"}

\* deontic_op
deontic_op(type) ==
    CASE type = "DEBE" -> "DEONTIC_OBLIGATION"
      [] type = "NO_DEBE" -> "DEONTIC_PROHIBITION"
      [] type = "PUEDE" -> "DEONTIC_PRIVILEGE"
      [] OTHER -> "DEONTIC_CLAIM_RIGHT"

\* compliance_type
compliance_type(type) ==
    IF type = "CUMPLIMIENTO" THEN "COMPLIANCE_FULFILLED" ELSE "COMPLIANCE_BREACHED"

\* the state yyparse starts in, with the schema parse_schema created
yyparse_init ==
    [ps |-> "start", sv |-> EmptySV, result |-> "running",
     current_schema |-> create_schema,
     current_institution |-> NullInstitution,
     suggested |-> {}, warnings |-> 0]

\* the parser while parse_schema has not been called
NoParser == [yyparse_init EXCEPT !.ps = "idle", !.current_schema = NoSchema]

yyerror(p) == [p EXCEPT !.result = "error"]

Shift(p, state, sv) == [p EXCEPT !.ps = state, !.sv = sv]

\* the role check shared by the norm and violation actions: the role to
\* store, and whether the suggestion lookup was invoked and a warning printed
CheckRole(cfg, ci, seen, role) ==
    IF config_is_valid_role(cfg, ci, seen, role)
    THEN [role |-> role, asked |-> FALSE, warned |-> FALSE]
    ELSE LET suggestion == config_suggest_role(cfg, ci, seen, role) IN
         [role |-> IF suggestion.found THEN suggestion.value ELSE role,
          asked |-> TRUE, warned |-> suggestion.found]

Asked(p, kind, value, check) ==
    IF check.asked THEN p.suggested \cup {[kind |-> kind, value |-> value]}
    ELSE p.suggested

\* an institution_decl that gives up on an institution the configuration does
\* not list, instead of warning and going on
institution_decl_aborting(p, cfg, domain) ==
    IF config_is_valid_institution(cfg, p.sv.s1)
    THEN [p EXCEPT !.ps = "norm_list", !.sv = EmptySV,
                   !.current_schema =
                       set_institution(@, p.sv.s1, config_get_institution_type(p.sv.s2),
                                       config_get_multiplicity(p.sv.s3), domain),
                   !.current_institution = [set |-> TRUE, text |-> p.sv.s1,
                                            freed |-> TRUE]]
    ELSE yyerror(p)

\* institution_decl, lines 271-305
institution_decl(p, cfg, domain) ==
    LET type == config_get_institution_type(p.sv.s2)
        mult == config_get_multiplicity(p.sv.s3)
        valid == config_is_valid_institution(cfg, p.sv.s1)
        suggestion == IF valid THEN NoSuggestion
                      ELSE config_suggest_institution(cfg, p.sv.s1)
        name == IF suggestion.found THEN suggestion.value ELSE p.sv.s1
        warned == (IF valid THEN 0 ELSE 1)
                  + (IF config_is_valid_type(cfg, p.sv.s2) THEN 0 ELSE 1)
                  + (IF config_is_valid_domain(cfg, domain) THEN 0 ELSE 1)
    IN  [p EXCEPT !.ps = "norm_list", !.sv = EmptySV,
                  !.current_schema = set_institution(@, name, type, mult, domain),
                  \* config_set_current_institution($2); free($2)
                  !.current_institution = [set |-> TRUE, text |-> name, freed |-> TRUE],
                  !.suggested = IF valid THEN @
                                ELSE @ \cup {[kind |-> "institution", value |-> p.sv.s1]},
                  !.warnings = @ + warned]

\* scope_opt: ACTUA_SOBRE scope, lines 428-442: the scope goes to the last norm
\* of the list as it is when scope_opt is reduced
scope_opt(p, description) ==
    LET n == Len(p.current_schema.norms) IN
    IF n = 0 THEN p
    ELSE [p EXCEPT !.current_schema.norms[n] = add_scope_to_norm(@, description)]

\* norm, lines 312-382 (the three alternatives are sv.form 1, 2, 3)
norm(p, cfg, seen) ==
    LET check == CheckRole(cfg, p.current_institution, seen, p.sv.s1)
        created == create_norm(p.sv.n1, check.role, p.sv.op, p.sv.s2)
        conditioned ==
            IF p.sv.form = 2 THEN add_condition_to_norm(created, p.sv.s3)
            ELSE IF p.sv.form = 3
                 THEN add_condition_to_norm(created,
                                            "NORM_REFERENCE:" \o ToString(p.sv.n2))
                 ELSE created
    IN  [p EXCEPT !.ps = "norm_list", !.sv = EmptySV,
                  !.current_schema = add_norm_to_schema(@, conditioned),
                  !.suggested = Asked(p, "role", p.sv.s1, check),
                  !.warnings = @ + (IF check.warned THEN 1 ELSE 0)]

\* violation, lines 453-492 (sv.form 1 is the single, 2 the compound one)
violation(p, cfg, seen, consequence) ==
    LET check == CheckRole(cfg, p.current_institution, seen, p.sv.s1)
        viol == IF p.sv.form = 2
                THEN create_compound_violation(p.sv.n1, p.sv.n2, check.role,
                                               p.sv.op, consequence)
                ELSE create_violation(p.sv.n1, check.role, p.sv.op, consequence)
    IN  [p EXCEPT !.ps = "violation_list", !.sv = EmptySV,
                  !.current_schema = add_violation_to_schema(@, viol),
                  !.suggested = Asked(p, "role", p.sv.s1, check),
                  !.warnings = @ + (IF check.warned THEN 1 ELSE 0)]

\* fact, lines 499-516
fact(p, evidence) ==
    [p EXCEPT !.ps = "fact_list", !.sv = EmptySV,
              !.current_schema = add_fact_to_schema(@, create_legal_fact(p.sv.s1, evidence))]

\* agenda, lines 523-564: remedy is <<>> for LO_ESENCIAL, <<text>> for LO_SIGUIENTE
agenda(p, cfg, seen, essential, remedy) ==
    LET ci == p.current_institution
        warned == (IF config_is_valid_role(cfg, ci, seen, p.sv.s1) THEN 0 ELSE 1)
                  + (IF config_is_valid_role(cfg, ci, seen, p.sv.s3) THEN 0 ELSE 1)
        created == set_agenda_essential(
                       create_agenda(p.sv.s1, p.sv.op, p.sv.s2, p.sv.s3), essential)
        full == IF remedy = <<>> THEN created
                ELSE add_norm_remedy_to_agenda(created, remedy[1])
    IN  [p EXCEPT !.ps = "agenda_list", !.sv = EmptySV,
                  !.current_schema = add_agenda_to_schema(@, full),
                  !.warnings = @ + warned]

\* schema: institution_decl norm_list violation_list fact_list agenda_list,
\* lines 263-269: what a token does between two items of the lists
ListStates == {"norm_list", "violation_list", "fact_list", "agenda_list"}

\* a grammar whose norm_list and violation_list may interleave: a norm is
\* taken after a violation too
list_step_interleaved(p, tok) ==
    IF tok.type = "NUMBER" /\ p.ps \in {"norm_list", "violation_list"}
    THEN Shift(p, "norm_NUMBER", [EmptySV EXCEPT !.n1 = tok.number, !.form = 1])
    ELSE IF tok.type = "VIOLACION" /\ p.ps \in {"norm_list", "violation_list"}
    THEN Shift(p, "viol_VIOLACION", [EmptySV EXCEPT !.form = 1])
    ELSE IF tok.type = "HECHO" /\ p.ps \in {"norm_list", "violation_list", "fact_list"}
    THEN Shift(p, "fact_HECHO", EmptySV)
    ELSE IF tok.type = "ROL"
    THEN Shift(p, "agenda_ROL", [EmptySV EXCEPT !.s1 = tok.string])
    ELSE IF tok.type = "EOF"
    THEN [p EXCEPT !.ps = "accepted", !.result = "accept"]
    ELSE yyerror(p)

list_step(p, tok) ==
    IF tok.type = "NUMBER" /\ p.ps = "norm_list"
    THEN Shift(p, "norm_NUMBER", [EmptySV EXCEPT !.n1 = tok.number, !.form = 1])
    ELSE IF tok.type = "VIOLACION" /\ p.ps \in {"norm_list", "violation_list"}
    THEN Shift(p, "viol_VIOLACION", [EmptySV EXCEPT !.form = 1])
    ELSE IF tok.type = "HECHO" /\ p.ps \in {"norm_list", "violation_list", "fact_list"}
    THEN Shift(p, "fact_HECHO", EmptySV)
    ELSE IF tok.type = "ROL"
    THEN Shift(p, "agenda_ROL", [EmptySV EXCEPT !.s1 = tok.string])
    ELSE IF tok.type = "EOF"
    THEN [p EXCEPT !.ps = "accepted", !.result = "accept"]
    ELSE yyerror(p)

\* One token through the automaton bison builds from the grammar.  Where the
\* grammar leaves a choice between shifting ROL and reducing `condition` after
\* EN_CASO_QUE REGLA NUMBER, bison shifts (the third alternative of norm).
yyparse_step(p, tok, cfg, seen) ==
    LET t == tok.type
        sv == p.sv
    IN
    CASE p.ps = "start" ->
           IF t = "INSTITUTION" THEN Shift(p, "inst_INSTITUTION", EmptySV) ELSE yyerror(p)
      [] p.ps = "inst_INSTITUTION" ->
           IF t = "NOMBRE_INSTITUCION"
           THEN Shift(p, "inst_NOMBRE", [sv EXCEPT !.s1 = tok.string]) ELSE yyerror(p)
      [] p.ps = "inst_NOMBRE" ->
           IF t = "TIPO_INSTITUCION"
           THEN Shift(p, "inst_TIPO", [sv EXCEPT !.s2 = tok.string]) ELSE yyerror(p)
      [] p.ps = "inst_TIPO" ->
           IF t = "MULTIPLICIDAD"
           THEN Shift(p, "inst_MULTIPLICIDAD", [sv EXCEPT !.s3 = tok.string])
           ELSE yyerror(p)
      [] p.ps = "inst_MULTIPLICIDAD" ->
           IF t = "DOMINIO_LEGAL" THEN institution_decl(p, cfg, tok.string) ELSE yyerror(p)
      [] p.ps \in ListStates -> list_step(p, tok)
      \* norm
      [] p.ps = "norm_NUMBER" ->
           IF t = "ROL" THEN Shift(p, "norm_ROL", [sv EXCEPT !.s1 = tok.string])
           ELSE IF t = "EN_CASO_QUE" THEN Shift(p, "norm_EN_CASO_QUE", sv)
           ELSE yyerror(p)
      [] p.ps = "norm_EN_CASO_QUE" ->
           IF t = "STRING" THEN Shift(p, "condition", [sv EXCEPT !.s3 = tok.string])
           ELSE IF t = "REGLA" THEN Shift(p, "cond_REGLA", sv)
           ELSE yyerror(p)
      [] p.ps = "cond_REGLA" ->
           IF t = "NUMBER" THEN Shift(p, "cond_REGLA_NUMBER", [sv EXCEPT !.n2 = tok.number])
           ELSE yyerror(p)
      [] p.ps = "cond_REGLA_NUMBER" ->
           IF t = "ROL"
           THEN Shift(p, "norm_ROL", [sv EXCEPT !.s1 = tok.string, !.form = 3])
           ELSE IF t = "Y"
           THEN Shift(p, "condition_Y",
                      [sv EXCEPT !.s3 = "NORM_REFERENCE:" \o ToString(sv.n2)])
           ELSE yyerror(p)
      [] p.ps = "condition" ->
           IF t = "Y" THEN Shift(p, "condition_Y", sv)
           ELSE IF t = "ROL"
           THEN Shift(p, "norm_ROL", [sv EXCEPT !.s1 = tok.string, !.form = 2])
           ELSE yyerror(p)
      [] p.ps = "condition_Y" ->
           IF t = "STRING"
           THEN Shift(p, "condition_list", [sv EXCEPT !.s3 = @ \o " y " \o tok.string])
           ELSE IF t = "REGLA" THEN Shift(p, "condition_Y_REGLA", sv)
           ELSE yyerror(p)
      [] p.ps = "condition_Y_REGLA" ->
           IF t = "NUMBER"
           THEN Shift(p, "condition_list",
                      [sv EXCEPT !.s3 = @ \o " y " \o "NORM_REFERENCE:"
                                          \o ToString(tok.number)])
           ELSE yyerror(p)
      [] p.ps = "condition_list" ->
           IF t = "ROL"
           THEN Shift(p, "norm_ROL", [sv EXCEPT !.s1 = tok.string, !.form = 2])
           ELSE yyerror(p)
      [] p.ps = "norm_ROL" ->
           IF t \in DeonticTokens
           THEN Shift(p, "norm_deontic_op", [sv EXCEPT !.op = deontic_op(t)])
           ELSE yyerror(p)
      [] p.ps = "norm_deontic_op" ->
           IF t = "STRING" THEN Shift(p, "action_STRING", [sv EXCEPT !.s2 = tok.string])
           ELSE yyerror(p)
      [] p.ps = "action_STRING" ->
           IF t = "Y" THEN Shift(p, "action_Y", sv)
           ELSE IF t = "ACTUA_SOBRE" THEN Shift(p, "scope_ACTUA_SOBRE", sv)
           ELSE list_step(norm(p, cfg, seen), tok)
      [] p.ps = "action_Y" ->
           IF t = "STRING"
           THEN Shift(p, "action", [sv EXCEPT !.s2 = @ \o " y " \o tok.string])
           ELSE yyerror(p)
      [] p.ps = "action" ->
           IF t = "ACTUA_SOBRE" THEN Shift(p, "scope_ACTUA_SOBRE", sv)
           ELSE list_step(norm(p, cfg, seen), tok)
      [] p.ps = "scope_ACTUA_SOBRE" ->
           IF t = "STRING" THEN norm(scope_opt(p, tok.string), cfg, seen)
           ELSE yyerror(p)
      \* violation
      [] p.ps = "viol_VIOLACION" ->
           IF t = "NUMBER" THEN Shift(p, "viol_NUMBER", [sv EXCEPT !.n1 = tok.number])
           ELSE yyerror(p)
      [] p.ps = "viol_NUMBER" ->
           IF t = "ENTONCES" THEN Shift(p, "viol_ENTONCES", sv)
           ELSE IF t = "Y" THEN Shift(p, "viol_Y", sv)
           ELSE yyerror(p)
      [] p.ps = "viol_Y" ->
           IF t = "VIOLACION" THEN Shift(p, "viol_Y_VIOLACION", sv) ELSE yyerror(p)
      [] p.ps = "viol_Y_VIOLACION" ->
           IF t = "NUMBER"
           THEN Shift(p, "viol_NUMBER2", [sv EXCEPT !.n2 = tok.number, !.form = 2])
           ELSE yyerror(p)
      [] p.ps = "viol_NUMBER2" ->
           IF t = "ENTONCES" THEN Shift(p, "viol_ENTONCES", sv) ELSE yyerror(p)
      [] p.ps = "viol_ENTONCES" ->
           IF t = "ROL" THEN Shift(p, "viol_ROL", [sv EXCEPT !.s1 = tok.string])
           ELSE yyerror(p)
      [] p.ps = "viol_ROL" ->
           IF t \in DeonticTokens
           THEN Shift(p, "viol_deontic_op", [sv EXCEPT !.op = deontic_op(t)])
           ELSE yyerror(p)
      [] p.ps = "viol_deontic_op" ->
           IF t = "STRING" THEN violation(p, cfg, seen, tok.string) ELSE yyerror(p)
      \* fact
      [] p.ps = "fact_HECHO" ->
           IF t = "STRING" THEN Shift(p, "fact_STRING", [sv EXCEPT !.s1 = tok.string])
           ELSE yyerror(p)
      [] p.ps = "fact_STRING" ->
           IF t = "EVIDENCIA" THEN Shift(p, "fact_EVIDENCIA", sv)
           ELSE IF t = "STRING" THEN fact(p, tok.string)
           ELSE yyerror(p)
      [] p.ps = "fact_EVIDENCIA" ->
           IF t = "STRING" THEN fact(p, tok.string) ELSE yyerror(p)
      \* agenda
      [] p.ps = "agenda_ROL" ->
           IF t = "BUSCA_ACTO" THEN Shift(p, "agenda_BUSCA_ACTO", sv) ELSE yyerror(p)
      [] p.ps = "agenda_BUSCA_ACTO" ->
           IF t = "ESTABLEZCA" THEN Shift(p, "agenda_ESTABLEZCA", sv) ELSE yyerror(p)
      [] p.ps = "agenda_ESTABLEZCA" ->
           IF t \in {"CUMPLIMIENTO", "INCUMPLIMIENTO"}
           THEN Shift(p, "agenda_compliance_type", [sv EXCEPT !.op = compliance_type(t)])
           ELSE yyerror(p)
      [] p.ps = "agenda_compliance_type" ->
           IF t = "NOMBRE_INSTITUCION"
           THEN Shift(p, "agenda_NOMBRE", [sv EXCEPT !.s2 = tok.string])
           ELSE yyerror(p)
      [] p.ps = "agenda_NOMBRE" ->
           IF t = "ADJUDIQUE" THEN Shift(p, "agenda_ADJUDIQUE", sv) ELSE yyerror(p)
      [] p.ps = "agenda_ADJUDIQUE" ->
           IF t = "ROL" THEN Shift(p, "agenda_ROL2", [sv EXCEPT !.s3 = tok.string])
           ELSE yyerror(p)
      [] p.ps = "agenda_ROL2" ->
           IF t = "LO_ESENCIAL" THEN agenda(p, cfg, seen, TRUE, <<>>)
           ELSE IF t = "LO_SIGUIENTE" THEN Shift(p, "agenda_LO_SIGUIENTE", sv)
           ELSE yyerror(p)
      [] p.ps = "agenda_LO_SIGUIENTE" ->
           IF t = "STRING" THEN agenda(p, cfg, seen, FALSE, <<tok.string>>)
           ELSE yyerror(p)
      [] OTHER -> p

(***************************************************************************)
(* The code generator, generate_kelsen_code, schema_types.c lines 464-1456.*)
(* The generated text is kept as the sequence of its statements: `kind` is *)
(* string, subject, asset, clause, fact, agenda or comment, `name` the     *)
(* declared identifier, `args` the values after the "=" and `cond` the     *)
(* conjuncts of a clause's condition (the members of an agenda's block).   *)
(***************************************************************************)
Stmt(kind, name, args, cond) == [kind |-> kind, name |-> name, args |-> args, cond |-> cond]

Comment(text) == Stmt("comment", "", <<text>>, <<>>)

NameLimit == 127
MAX_NORMS == 100
MaxRoles == 20
StringNameLimit == 30

deontic_to_string(deontic) ==
    CASE deontic = "DEONTIC_OBLIGATION" -> "OB"
      [] deontic = "DEONTIC_PROHIBITION" -> "PR"
      [] deontic = "DEONTIC_PRIVILEGE" -> "PVG"
      [] deontic = "DEONTIC_CLAIM_RIGHT" -> "CR"
      [] OTHER -> "??"

\* a switch without the case of the privilege, which falls to the default
norm_deontic_without_privilege(deontic) ==
    CASE deontic = "DEONTIC_OBLIGATION" -> "OB"
      [] deontic = "DEONTIC_PROHIBITION" -> "PR"
      [] deontic = "DEONTIC_CLAIM_RIGHT" -> "CR"
      [] OTHER -> "OB"

\* the switch of the norm section, lines 902-919
norm_deontic(deontic) ==
    CASE deontic = "DEONTIC_OBLIGATION" -> "OB"
      [] deontic = "DEONTIC_PROHIBITION" -> "PR"
      [] deontic = "DEONTIC_PRIVILEGE" -> "PVG"
      [] deontic = "DEONTIC_CLAIM_RIGHT" -> "CR"
      [] OTHER -> "OB"

\* the switch of the violation section, lines 1099-1115 and 1194-1210
consequence_deontic(deontic) ==
    CASE deontic = "DEONTIC_OBLIGATION" -> "OB"
      [] deontic = "DEONTIC_PROHIBITION" -> "PR"
      [] deontic = "DEONTIC_PRIVILEGE" -> "PVG"
      [] OTHER -> "CR"

\* strncpy(dest, text, 127); dest[127] = '\0'
strncpy127(text) ==
    IF Len(text) > NameLimit THEN SubSeq(text, 1, NameLimit) ELSE text

RECURSIVE sanitize_for_kelsen(_)
sanitize_for_kelsen(input) ==
    IF input = "" THEN ""
    ELSE LET c == CharAt(input, 1)
             rest == sanitize_for_kelsen(SubSeq(input, 2, Len(input)))
         IN  IF c \in {"$", "\"", "'", ",", ";", "{", "%", "}"} THEN rest
             ELSE IF c \in {"(", ")", "[", "]"} THEN " " \o rest
             ELSE c \o rest

\* the loop of generate_distinctive_string_name over the action text
RECURSIVE string_name_loop(_, _)
string_name_loop(action, dest) ==
    IF action = "" \/ Len(dest) >= StringNameLimit THEN dest
    ELSE LET c == CharAt(action, 1)
             rest == SubSeq(action, 2, Len(action))
         IN  IF isalnum(c) THEN string_name_loop(rest, dest \o c)
             ELSE IF Len(dest) > 0 /\ CharAt(dest, Len(dest)) # "_"
                  THEN string_name_loop(rest, dest \o "_")
                  ELSE string_name_loop(rest, dest)

generate_distinctive_string_name(action, norm_index) ==
    string_name_loop(action, "") \o "_" \o ToString(norm_index)

\* initialize_string_names: norm_string_names[norm_index - 1], empty beyond MAX_NORMS
norm_string_names(sch, norm_index) ==
    IF norm_index <= MAX_NORMS /\ norm_index <= Len(sch.norms)
    THEN generate_distinctive_string_name(sch.norms[norm_index].action, norm_index)
    ELSE ""

\* the identifier text taken from a description: the prefix up to the first
\* space, its first character in upper case
RECURSIVE cut_at_space(_)
cut_at_space(text) ==
    IF text = "" \/ CharAt(text, 1) = " " THEN ""
    ELSE CharAt(text, 1) \o cut_at_space(SubSeq(text, 2, Len(text)))

first_word_capitalized(text) ==
    LET word == cut_at_space(strncpy127(text)) IN
    IF word = "" THEN "" ELSE toupper(CharAt(word, 1)) \o SubSeq(word, 2, Len(word))

role_upper_of(role) == UpperStr(strncpy127(role))

\* Step 1: the string definitions
string_definitions(sch) ==
    LET inst_name_lower == LowerStr(strncpy127(sch.institution.name)) IN
    <<Comment("String definitions for actions"),
      Stmt("string", inst_name_lower, <<"acuerda " \o inst_name_lower>>, <<>>)>>
    \o [i \in 1..Len(sch.norms) |->
            Stmt("string", norm_string_names(sch, i),
                 <<sanitize_for_kelsen(sch.norms[i].action)>>, <<>>)]

\* Step 2: the unique roles, lines 659-741: one pass over a list adds each new
\* role while role_count stays below the size of the array
RECURSIVE collect_roles(_, _)
collect_roles(candidates, roles) ==
    IF candidates = <<>> \/ Len(roles) >= MaxRoles THEN roles
    ELSE collect_roles(Tail(candidates),
                       IF \E i \in 1..Len(roles) : roles[i] = Head(candidates)
                       THEN roles ELSE Append(roles, Head(candidates)))

\* the agenda loop tests role_count once per agenda, before its two roles
RECURSIVE collect_agenda_roles(_, _)
collect_agenda_roles(agendas, roles) ==
    IF agendas = <<>> \/ Len(roles) >= MaxRoles THEN roles
    ELSE LET a == Head(agendas)
             r1 == IF \E i \in 1..Len(roles) : roles[i] = a.requesting_role
                   THEN roles ELSE Append(roles, a.requesting_role)
             r2 == IF \E i \in 1..Len(r1) : r1[i] = a.beneficiary_role
                   THEN r1 ELSE Append(r1, a.beneficiary_role)
         IN  collect_agenda_roles(Tail(agendas), r2)

unique_roles(sch) ==
    LET from_norms == collect_roles([i \in 1..Len(sch.norms) |-> sch.norms[i].role], <<>>)
        from_viols == collect_roles([i \in 1..Len(sch.violations) |->
                                         sch.violations[i].role], from_norms)
    IN  collect_agenda_roles(sch.agendas, from_viols)

subject_declarations(roles) ==
    <<Comment("Subject declarations")>>
    \o [i \in 1..Len(roles) |->
            Stmt("subject", role_upper_of(roles[i]),
                 <<"Placeholder " \o roles[i], "Placeholder address", "12345678",
                   "placeholder" \o roles[i] \o "@example.com">>, <<>>)]

\* Step 3: the base contract asset
base_asset(sch, roles) ==
    LET two == Len(roles) >= 2
        first_role_upper == IF two THEN role_upper_of(roles[1]) ELSE "PLACEHOLDER"
        second_role_upper == IF two THEN role_upper_of(roles[2]) ELSE "PLACEHOLDER"
    IN  <<Comment("Base contract asset"),
          Stmt("asset", strncpy127(sch.institution.name),
               <<"Service", "+", first_role_upper,
                 LowerStr(strncpy127(sch.institution.name)), second_role_upper>>, <<>>)>>

\* the target subject: the other of the first two roles
target_role_upper_of(roles, role) ==
    IF Len(roles) >= 2
    THEN role_upper_of(IF role = roles[1] THEN roles[2] ELSE roles[1])
    ELSE "PLACEHOLDER"

\* strncmp(a, b, n) == 0 for a literal b of n characters
strncmp_eq(a, b, n) == Len(a) >= n /\ SubSeq(a, 1, n) = b

\* for (i = 1; i < number && norm != NULL; i++) norm = norm->next;
\* the position the walk stops at, 0 when it runs off the list
norm_at_position(sch, number) ==
    IF Len(sch.norms) = 0 THEN 0
    ELSE IF number <= 1 THEN 1
    ELSE IF number <= Len(sch.norms) THEN number
    ELSE 0

\* "<first word of the action>Asset<norm_index>", the identifier a norm declares
norm_asset_id(sch, norm_index) ==
    first_word_capitalized(sch.norms[norm_index].action) \o "Asset" \o ToString(norm_index)

norm_asset_type(nm) ==
    IF ~nm.scope.present THEN "Service"
    ELSE IF strstr(nm.scope.description, "inmueble") THEN "Property, NM"
    ELSE IF strstr(nm.scope.description, "propiedad") THEN "Property, M"
    ELSE "Service"

norm_asset_operator(nm) ==
    IF nm.scope.present /\ norm_asset_type(nm) = "Service"
       /\ (strstr(nm.action, "no ") \/ strstr(nm.action, "abstenerse")
           \/ strstr(nm.action, "evitar"))
    THEN "-" ELSE "+"

norm_asset_declaration(sch, roles, norm_index) ==
    LET nm == sch.norms[norm_index]
        type == norm_asset_type(nm)
        role_upper == role_upper_of(nm.role)
        string_name == norm_string_names(sch, norm_index)
        target == target_role_upper_of(roles, nm.role)
    IN  Stmt("asset", norm_asset_id(sch, norm_index),
             IF type = "Service"
             THEN <<type, norm_asset_operator(nm), role_upper, string_name, target>>
             ELSE <<type, role_upper, string_name, target>>, <<>>)

\* the asset a "NORM_REFERENCE:<n>" condition names: the action of the norm at
\* POSITION n, suffixed with n; "" when the walk runs off the list
referenced_norm_asset_id(sch, referenced_norm) ==
    LET position == norm_at_position(sch, referenced_norm) IN
    IF position = 0 THEN ""
    ELSE first_word_capitalized(sch.norms[position].action)
         \o "Asset" \o ToString(referenced_norm)

norm_clauses(sch, roles, norm_index) ==
    LET nm == sch.norms[norm_index]
        name == "norm" \o ToString(norm_index)
        consequence == <<norm_deontic(nm.deontic), norm_asset_id(sch, norm_index)>>
        plain == Stmt("clause", name, consequence, <<sch.institution.name>>)
    IN  IF nm.condition = <<>> THEN <<plain>>
        ELSE LET description == nm.condition[1] IN
             IF strncmp_eq(description, "NORM_REFERENCE:", 15)
             THEN LET referenced_norm == atoi(SubSeq(description, 16, Len(description)))
                      ref == referenced_norm_asset_id(sch, referenced_norm)
                  IN  IF norm_at_position(sch, referenced_norm) # 0
                      THEN <<Stmt("clause", name, consequence,
                                  <<sch.institution.name, ref>>)>>
                      ELSE <<plain>>
             ELSE <<Comment("Conditional norm"),
                    Stmt("string", "condition" \o ToString(norm_index),
                         <<description>>, <<>>),
                    Stmt("asset", "Condition" \o ToString(norm_index),
                         <<"Service", "+", role_upper_of(nm.role),
                           "condition" \o ToString(norm_index),
                           target_role_upper_of(roles, nm.role)>>, <<>>),
                    Stmt("clause", name, consequence,
                         <<sch.institution.name, "Condition" \o ToString(norm_index)>>)>>

\* Step 4: one asset and one clause per norm, in list order
RECURSIVE norm_assets_from(_, _, _)
norm_assets_from(sch, roles, norm_index) ==
    IF norm_index > Len(sch.norms) THEN <<>>
    ELSE <<norm_asset_declaration(sch, roles, norm_index)>>
         \o norm_clauses(sch, roles, norm_index)
         \o norm_assets_from(sch, roles, norm_index + 1)

norm_assets(sch, roles) == <<Comment("Norm assets")>> \o norm_assets_from(sch, roles, 1)

\* the identifier a violation negates: the action of the norm at POSITION
\* norm_number (`unknown` when there is none), suffixed with norm_number
violated_norm_asset_id(sch, norm_number, unknown) ==
    LET position == norm_at_position(sch, norm_number) IN
    (IF position = 0 THEN unknown
     ELSE first_word_capitalized(sch.norms[position].action))
    \o "Asset" \o ToString(norm_number)

single_violation(sch, roles, viol, viol_count) ==
    LET norm_number == viol.violated_norms[1]
        cons_asset == first_word_capitalized(viol.consequence)
                      \o "Consequence" \o ToString(viol_count)
        viol_string_name == "violation_string_" \o ToString(viol_count)
    IN  IF norm_at_position(sch, norm_number) = 0 THEN <<>>
        ELSE <<Stmt("string", viol_string_name, <<viol.consequence>>, <<>>),
               Stmt("asset", cons_asset,
                    <<"Service", "+", role_upper_of(viol.role), viol_string_name,
                      target_role_upper_of(roles, viol.role)>>, <<>>),
               Stmt("clause", "viol_clause_" \o ToString(viol_count),
                    <<consequence_deontic(viol.deontic), cons_asset>>,
                    <<"not(" \o violated_norm_asset_id(sch, norm_number, "") \o ")">>)>>

compound_violation(sch, roles, viol, viol_count) ==
    LET n1 == viol.violated_norms[1]
        n2 == viol.violated_norms[2]
        cons_asset == first_word_capitalized(viol.consequence)
                      \o "CompoundConsequence" \o ToString(viol_count)
        compound_string_name == "compound_violation_string_" \o ToString(viol_count)
    IN  <<Comment("Compound violation for norms " \o ToString(n1) \o " and " \o ToString(n2)),
          Stmt("string", compound_string_name, <<viol.consequence>>, <<>>),
          Stmt("asset", cons_asset,
               <<"Service", "+", role_upper_of(viol.role), compound_string_name,
                 target_role_upper_of(roles, viol.role)>>, <<>>),
          Stmt("clause", "compound_viol_clause_" \o ToString(viol_count),
               <<consequence_deontic(viol.deontic), cons_asset>>,
               <<"not(" \o violated_norm_asset_id(sch, n1, "Unknown") \o ")",
                 "not(" \o violated_norm_asset_id(sch, n2, "Unknown") \o ")">>)>>

\* the statements of the viol_count-th violation
violation_statements(sch, roles, viol_count) ==
    LET viol == sch.violations[viol_count] IN
    IF Len(viol.violated_norms) = 1
    THEN single_violation(sch, roles, viol, viol_count)
    ELSE compound_violation(sch, roles, viol, viol_count)

RECURSIVE violations_from(_, _, _)
violations_from(sch, roles, viol_count) ==
    IF viol_count > Len(sch.violations) THEN <<>>
    ELSE violation_statements(sch, roles, viol_count)
         \o violations_from(sch, roles, viol_count + 1)

\* Step 6
violation_clauses(sch, roles) ==
    IF sch.violations = <<>> THEN <<>>
    ELSE <<Comment("Violation clauses")>> \o violations_from(sch, roles, 1)

\* int norm_number = 1; it is never advanced by the loop over the norms
norm_number_after_norms == 1

RECURSIVE spaces_to_underscores_upper(_)
spaces_to_underscores_upper(text) ==
    IF text = "" THEN ""
    ELSE (IF isspace(CharAt(text, 1)) THEN "_" ELSE toupper(CharAt(text, 1)))
         \o spaces_to_underscores_upper(SubSeq(text, 2, Len(text)))

fact_id_of(description, fact_count) ==
    LET upper == spaces_to_underscores_upper(strncpy127(sanitize_for_kelsen(description)))
        cut == IF Len(upper) > StringNameLimit THEN SubSeq(upper, 1, StringNameLimit)
               ELSE upper
    IN  cut \o "_" \o ToString(fact_count)

\* the asset a fact is attached to: the first of the norms 1..norm_number-1
\* whose action occurs in the description, else the base contract asset
related_asset_of(sch, description) ==
    LET candidates == {i \in 1..(norm_number_after_norms - 1) :
                          /\ i <= Len(sch.norms)
                          /\ strstr(description, sch.norms[i].action)}
    IN  IF candidates = {} THEN sch.institution.name
        ELSE norm_asset_id(sch, CHOOSE i \in candidates : \A j \in candidates : i <= j)

\* Step 7
fact_statements(sch) ==
    IF sch.facts = <<>> THEN <<>>
    ELSE <<Comment("Facts")>>
         \o [i \in 1..Len(sch.facts) |->
                Stmt("fact", fact_id_of(sch.facts[i].description, i),
                     <<related_asset_of(sch, sch.facts[i].description),
                       sch.facts[i].description, sch.facts[i].evidence>>, <<>>)]

agenda_id_of(ag, agenda_count) ==
    LET role == strncpy127(ag.requesting_role) IN
    (IF role = "" THEN "" ELSE toupper(CharAt(role, 1)) \o SubSeq(role, 2, Len(role)))
    \o (IF ag.compliance = "COMPLIANCE_FULFILLED" THEN "Fulfillment" ELSE "Breach")
    \o ToString(agenda_count)

\* an agenda block that names each norm asset by the number of its norm, as
\* the violation clauses do, and not by its position
agenda_statement_by_number(sch, ag, agenda_count) ==
    Stmt("agenda", agenda_id_of(ag, agenda_count),
         <<IF ag.compliance = "COMPLIANCE_FULFILLED" THEN "FULFILL" ELSE "BREACH">>,
         <<sch.institution.name>>
         \o (IF ag.is_essential
             THEN [i \in 1..Len(sch.norms) |->
                      first_word_capitalized(sch.norms[i].action) \o "Asset"
                      \o ToString(sch.norms[i].number)]
             ELSE [i \in 1..Len(ag.norm_remedies) |-> "// " \o ag.norm_remedies[i]]))

agenda_statement(sch, ag, agenda_count) ==
    Stmt("agenda", agenda_id_of(ag, agenda_count),
         <<IF ag.compliance = "COMPLIANCE_FULFILLED" THEN "FULFILL" ELSE "BREACH">>,
         <<sch.institution.name>>
         \o (IF ag.is_essential
             THEN [i \in 1..Len(sch.norms) |-> norm_asset_id(sch, i)]
             ELSE [i \in 1..Len(ag.norm_remedies) |-> "// " \o ag.norm_remedies[i]]))

\* Step 8
agenda_statements(sch) ==
    IF sch.agendas = <<>> THEN <<>>
    ELSE <<Comment("Agendas")>>
         \o [i \in 1..Len(sch.agendas) |-> agenda_statement(sch, sch.agendas[i], i)]

\* the agenda loop tests role_count before an agenda and then stores both of
\* its roles: with MaxRoles - 1 roles collected, the second store goes to
\* roles[MaxRoles], one past the end of the array.  What the later loops read
\* there is not defined: the role that was stored, or a pointer that is NULL
\* by then and is passed over.
roles_read(sch) ==
    LET roles == unique_roles(sch) IN
    IF Len(roles) > MaxRoles THEN {roles, SubSeq(roles, 1, MaxRoles)} ELSE {roles}

\* generate_kelsen_code, with `roles` what the roles array reads as
generate_kelsen_code(sch, roles) ==
    string_definitions(sch)
    \o subject_declarations(roles)
    \o base_asset(sch, roles)
    \o norm_assets(sch, roles)
    \o violation_clauses(sch, roles)
    \o fact_statements(sch)
    \o agenda_statements(sch)

\* the statements of one kind, and the identifiers they declare
StatementsOf(code, kind) == {i \in 1..Len(code) : code[i].kind = kind}

DeclaredAssets(code) == {code[i].name : i \in StatementsOf(code, "asset")}

(***************************************************************************)
(* Values of the variables a specification does not use.                   *)
(***************************************************************************)
NoConfig == [loaded |-> FALSE, instituciones |-> <<>>, tipos |-> <<>>,
             dominios |-> <<>>, roles |-> <<>>]

NoCode == <<>>

NoQuery == [kind |-> "", array |-> <<>>, text |-> "", seen |-> ""]

NoArgv ==
    [input |-> <<>>, opens |-> FALSE, config |-> NoConfig, context |-> "none",
     output |-> "stdout", validator |-> 0]

Running == -1
EXIT_SUCCESS == 0
EXIT_FAILURE == 1

(***************************************************************************)
(* SpecLex: the tokenizer run on two input files side by side, one call of *)
(* yylex at a time, each up to its end-of-input token.                     *)
(***************************************************************************)
PlainNorm == <<"1 el-comprador debe pagar el precio">>

NoisyNorm == <<"1 por favor el-comprador debe , por favor , pagar el precio">>

LexFiles ==
    {PlainNorm, NoisyNorm,
     <<"1 please el-comprador debe , una , pagar el precio\n">>,
     <<"[Institution] Compraventa contrato una derecho-civil\n",
       "1 el-comprador debe \"pagar el precio\"\n">>,
     <<"2. en caso que regla 1 el-vendedor no-debe \"retener la cosa\"\n",
       "violación de 1 entonces el-vendedor tiene-derecho-a \"rescindir\"">>,
     <<"\n", "3 EL-VENDEDOR Puede hello \"reclamar\" ; actua-sobre el pago\n">>}

InitLex ==
    /\ lex \in {<<tokenizer_init(f).lx, tokenizer_init(g).lx>> : f, g \in LexFiles}
    /\ \A i \in 1..2 : tokenizer_init(lex[i].file).ok
    /\ parser = <<>>
    /\ config = <<>>
    /\ schema = NoSchema
    /\ kelsen_code = NoCode
    /\ pc = "yylex"
    /\ exit_code = Running
    /\ query = NoQuery
    /\ answer = NoSuggestion
    /\ argv = NoArgv

\* the caller asks run i for its next token (nothing is asked after EOF)
LexStep(i) ==
    /\ ~AtEndOfInput(lex[i])
    /\ lex' = [lex EXCEPT ![i] = yylex(lex[i])]
    /\ UNCHANGED <<parser, config, schema, kelsen_code, pc, exit_code, query, answer, argv>>

NextLex == \E i \in 1..2 : LexStep(i)

SpecLex == InitLex /\ [][NextLex]_vars

\* C1: the plain and the noisy norm line tokenize to the identical token
\* sequence (types and carried values, up to end of input): every inserted
\* filler word and punctuation mark is dropped and none surfaces as a token.
C1_NoiseTolerance ==
    (/\ lex[1].file = PlainNorm /\ lex[2].file = NoisyNorm
     /\ AtEndOfInput(lex[1]) /\ AtEndOfInput(lex[2]))
    => lex[1].returned = lex[2].returned

(***************************************************************************)
(* Spec: one run of main(), part_003 lines 164-336, on an input file and a *)
(* configuration document.  yyparse asks yylex for one token per step.     *)
(***************************************************************************)
Header(name, type, multiplicity, domain) ==
    "[Institution] " \o name \o " " \o type \o " " \o multiplicity \o " " \o domain \o "\n"

MinimalSchema ==
    <<Header("Compraventa", "contrato", "una", "derecho-civil"),
      "1 el-comprador debe \"pagar el precio\"\n">>

InputFiles ==
    {MinimalSchema,
     <<Header("Compraventa", "contrato", "multiples", "derecho-civil"),
       "1 el-comprador debe \"pagar el precio\"\n">>,
     <<Header("Compraventa", "contrato", "multiples", "derecho-civil"),
       "1 comprador debe \"pagar el precio\"\n",
       "2 vendedor debe \"entregar la cosa\"\n",
       "violación de 1 entonces vendedor tiene-derecho-a \"rescindir el contrato\"\n">>,
     <<Header("Compraventas", "acto", "single", "derecho-penal"),
       "1 el-comprdor puede \"reclamar\"\n">>,
     <<Header("Compraventa", "contrato", "multiples", "derecho-civil"),
       "1 comprador \"pagar el precio\"\n">>,
     <<"1 comprador debe \"pagar el precio\"\n">>,
     <<>>}

SalesConfig ==
    [loaded |-> TRUE,
     instituciones |-> <<"Compraventa", "Arrendamiento">>,
     tipos |-> <<"contrato", "procedimiento">>,
     dominios |-> <<"derecho-civil", "derecho-mercantil">>,
     roles |-> <<[key |-> "Compraventa", value |-> <<"comprador", "vendedor">>],
                 [key |-> "Arrendamiento", value |-> <<"arrendador", "arrendatario">>]>>]

EmptyConfig == [NoConfig EXCEPT !.loaded = TRUE]

Configs == {SalesConfig, EmptyConfig, NoConfig}

\* -x FILE: not given, given and loading, given and not loading
Contexts == {"none", "loads", "fails"}

\* the output file: not given, given and opening, given and not opening
Outputs == {"stdout", "opens", "fails"}

\* what system() returns for the external validator, run on an output file only
ValidatorResults == {0, 256}

Init ==
    /\ argv \in {a \in [input : InputFiles, opens : BOOLEAN, config : Configs,
                        context : Contexts, output : Outputs,
                        validator : ValidatorResults] :
                    a.output # "opens" => a.validator = 0}
    /\ lex = <<>>
    /\ parser = <<>>
    /\ config = <<>>
    /\ schema = NoSchema
    /\ kelsen_code = NoCode
    /\ pc = "config_init"
    /\ exit_code = Running
    /\ query = NoQuery
    /\ answer = NoSuggestion

\* return EXIT_FAILURE / EXIT_SUCCESS
Return(code) == pc' = "exit" /\ exit_code' = code

\* config_init(config_filename), lines 214-217
ConfigInit ==
    /\ pc = "config_init"
    /\ IF argv.config.loaded
       THEN config' = <<argv.config>> /\ pc' = "context_init" /\ UNCHANGED exit_code
       ELSE Return(EXIT_FAILURE) /\ UNCHANGED config
    /\ UNCHANGED <<lex, parser, schema, kelsen_code, query, answer, argv>>

\* legal_context_init(context_filename) when -x was given, lines 220-230
ContextInit ==
    /\ pc = "context_init"
    /\ IF argv.context = "fails"
       THEN Return(EXIT_FAILURE)
       ELSE pc' = "fopen" /\ UNCHANGED exit_code
    /\ UNCHANGED <<lex, parser, config, schema, kelsen_code, query, answer, argv>>

\* fopen(input_filename, "r"), lines 233-241
OpenInput ==
    /\ pc = "fopen"
    /\ IF argv.opens
       THEN pc' = "parse_schema" /\ UNCHANGED exit_code
       ELSE Return(EXIT_FAILURE)
    /\ UNCHANGED <<lex, parser, config, schema, kelsen_code, query, answer, argv>>

\* parse_schema up to its call of yyparse, part_001 lines 578-595
ParseSchemaBegin ==
    /\ pc = "parse_schema"
    /\ LET t == tokenizer_init(argv.input) IN
       IF t.ok
       THEN lex' = <<t.lx>> /\ parser' = <<yyparse_init>> /\ pc' = "yyparse"
       ELSE pc' = "parsed" /\ UNCHANGED <<lex, parser>>
    /\ UNCHANGED <<config, schema, kelsen_code, exit_code, query, answer, argv>>

\* yyparse of run i takes the next token from yylex; a role check reads the
\* string current_institution points at
ParseToken(i) ==
    /\ parser[i].result = "running"
    /\ \E seen \in CurrentInstitutionReads(parser[i].current_institution) :
          LET lx == yylex(lex[i]) IN
          /\ lex' = [lex EXCEPT ![i] = lx]
          /\ parser' = [parser EXCEPT ![i] = yyparse_step(@, LastToken(lx), config[i], seen)]
    /\ UNCHANGED <<config, schema, kelsen_code, pc, exit_code, query, answer, argv>>

YYParse == pc = "yyparse" /\ ParseToken(1)

\* a parse_schema without lines 598-601: the schema built so far is handed
\* back whatever yyparse reported
parse_schema_keeps_partial(p) == p.current_schema

\* what parse_schema returns once yyparse has: the schema, or NULL after
\* free_schema when yyparse reported an error, part_001 lines 597-605
parse_schema_result(p) ==
    IF p.result = "accept" THEN p.current_schema ELSE NoSchema

ParseSchemaReturn ==
    /\ pc = "yyparse"
    /\ parser[1].result # "running"
    /\ schema' = parse_schema_result(parser[1])
    /\ pc' = "parsed"
    /\ UNCHANGED <<lex, parser, config, kelsen_code, exit_code, query, answer, argv>>

\* if (schema == NULL) return EXIT_FAILURE, lines 254-261
SchemaCheck ==
    /\ pc = "parsed"
    /\ IF schema.allocated
       THEN pc' = "generate" /\ UNCHANGED exit_code
       ELSE Return(EXIT_FAILURE)
    /\ UNCHANGED <<lex, parser, config, schema, kelsen_code, query, answer, argv>>

\* generate_kelsen_code_with_context, schema_types.c lines 1684-1991, for a
\* context database that holds no source: the base code followed by the
\* heading of the legal context section
generate_kelsen_code_with_context(sch, roles) ==
    generate_kelsen_code(sch, roles) \o <<Comment("LEGAL CONTEXT EXTENSIONS")>>

\* kelsen_code = generate_kelsen_code[_with_context](schema), lines 269-284
GenerateCode ==
    /\ pc = "generate"
    /\ \E roles \in roles_read(schema) :
          kelsen_code' = IF argv.context # "none"
                         THEN generate_kelsen_code_with_context(schema, roles)
                         ELSE generate_kelsen_code(schema, roles)
    /\ pc' = "output"
    /\ UNCHANGED <<lex, parser, config, schema, exit_code, query, answer, argv>>

\* the code is written out, lines 287-325: to standard output, after which
\* main returns EXIT_SUCCESS (line 335), or to the output file, after which
\* the validator is run; an output file that does not open ends the run
Output ==
    /\ pc = "output"
    /\ CASE argv.output = "stdout" -> Return(EXIT_SUCCESS)
         [] argv.output = "fails" -> Return(EXIT_FAILURE)
         [] OTHER -> pc' = "validate" /\ UNCHANGED exit_code
    /\ UNCHANGED <<lex, parser, config, schema, kelsen_code, query, answer, argv>>

\* a main that hands the validator's result on as its own exit code
ValidateDecides ==
    /\ pc = "validate"
    /\ Return(IF argv.validator = 0 THEN EXIT_SUCCESS ELSE EXIT_FAILURE)
    /\ UNCHANGED <<lex, parser, config, schema, kelsen_code, query, answer, argv>>

\* result = system("kelsen -e kelsen_data.json <output>"), lines 308-323: the
\* result is reported, then main cleans up and returns EXIT_SUCCESS
Validate ==
    /\ pc = "validate"
    /\ argv.validator \in ValidatorResults
    /\ Return(EXIT_SUCCESS)
    /\ UNCHANGED <<lex, parser, config, schema, kelsen_code, query, answer, argv>>

Next ==
    \/ ConfigInit
    \/ ContextInit
    \/ OpenInput
    \/ ParseSchemaBegin
    \/ YYParse
    \/ ParseSchemaReturn
    \/ SchemaCheck
    \/ GenerateCode
    \/ Output
    \/ Validate

Spec == Init /\ [][Next]_vars

\* C2: run on the minimal schema (institution Compraventa, type contrato,
\* multiplicity una, domain derecho-civil, the one norm of el-comprador), main
\* succeeds and the output holds exactly one string for the action, subjects
\* for COMPRADOR and one counter-role, the base asset and one norm asset, and
\* exactly one clause { Compraventa, OB(...) } without not(...) and without AND.
C2_MinimalSchema ==
    (/\ argv.input = MinimalSchema /\ argv.opens /\ argv.config = SalesConfig
     /\ pc = "exit")
    => LET code == kelsen_code
           named(kind) == {code[i] : i \in StatementsOf(code, kind)}
       IN  /\ exit_code = EXIT_SUCCESS
           /\ Cardinality({i \in StatementsOf(code, "string") :
                              code[i].args = <<"pagar el precio">>}) = 1
           /\ Cardinality(named("subject")) = 2
           /\ \E st \in named("subject") : st.name = "COMPRADOR"
           /\ Cardinality(named("asset")) = 2
           /\ \E st \in named("asset") : st.name = "Compraventa"
           /\ Cardinality(StatementsOf(code, "clause")) = 1
           /\ \A st \in named("clause") :
                 st.cond = <<"Compraventa">> /\ st.args[1] = "OB"

\* C7: once yyparse has reported a grammar mismatch, main never holds a Schema,
\* generation is never started, and the only exit code is a non-zero one.
C7_GrammarMismatchFatal ==
    (parser # <<>> /\ parser[1].result = "error")
    => /\ schema = NoSchema
       /\ kelsen_code = NoCode
       /\ pc \notin {"generate", "output"}
       /\ exit_code \in {Running, EXIT_FAILURE}
       /\ (pc = "exit" => exit_code = EXIT_FAILURE)

\* a run that stopped on a grammar mismatch after the institution was declared
C7_Witness ==
    /\ parser # <<>> /\ parser[1].result = "error"
    /\ parser[1].current_schema.institution.name = "Compraventa"
    /\ schema = NoSchema /\ pc = "exit" /\ exit_code = EXIT_FAILURE

MaxLines == 2

ParseHeaders ==
    {Header("Compraventa", "contrato", "multiples", "derecho-civil"),
     Header("Compraventas", "acto", "single", "derecho-penal")}

NormLines ==
    {"1 comprador debe \"pagar el precio\"\n",
     "2 en-caso-que regla 1 el-vendedor debe \"entregar\" actua-sobre \"la cosa\"\n",
     "3 vendedor \"entregar\"\n"}

ViolationLines ==
    {"violación de 1 entonces el-comprdor tiene-derecho-a \"rescindir\"\n"}

FactLines == {"hecho \"pago realizado\" evidencia \"recibo\"\n"}

AgendaLines ==
    {"comprador busca establezca cumplimiento Compraventa adjudique vendedor lo-esencial\n"}

ParseLines == NormLines \cup ViolationLines \cup FactLines \cup AgendaLines

RECURSIVE Bodies(_)
Bodies(n) ==
    IF n = 0 THEN {<<>>}
    ELSE Bodies(n - 1) \cup {Append(b, l) : b \in Bodies(n - 1), l \in ParseLines}

\* the inputs: a declaration followed by up to MaxLines items in any order,
\* and the same items without a declaration before them
ParseFiles ==
    {<<h>> \o b : h \in ParseHeaders, b \in Bodies(MaxLines)}
    \cup (Bodies(MaxLines) \ {<<>>})

OtherConfig ==
    [loaded |-> TRUE,
     instituciones |-> <<"Compraventas">>,
     tipos |-> <<"acto">>,
     dominios |-> <<"derecho-penal">>,
     roles |-> <<[key |-> "Compraventas", value |-> <<"el-comprdor", "el-vendedor">>]>>]

\* every two of the configurations that load
ConfigPairs ==
    {<<SalesConfig, EmptyConfig>>, <<SalesConfig, OtherConfig>>,
     <<EmptyConfig, OtherConfig>>}

InitParse ==
    /\ \E f \in ParseFiles : lex = <<tokenizer_init(f).lx, tokenizer_init(f).lx>>
    /\ config \in ConfigPairs
    /\ parser = <<yyparse_init, yyparse_init>>
    /\ schema = NoSchema
    /\ kelsen_code = NoCode
    /\ pc = "yyparse"
    /\ exit_code = Running
    /\ query = NoQuery
    /\ answer = NoSuggestion
    /\ argv = NoArgv

Tokens(i) == Len(lex[i].returned)

\* the first run takes a token when the second has caught up, the second when
\* it is behind
ParseFirst == Tokens(1) = Tokens(2) /\ ParseToken(1)

ParseSecond == Tokens(2) < Tokens(1) /\ ParseToken(2)

NextParse == ParseFirst \/ ParseSecond

SpecParse == InitParse /\ [][NextParse]_vars

\* C8: on the same token stream the two runs stand at the same place in the
\* grammar after the same number of tokens, whatever their configurations:
\* parsing succeeds under one exactly if it succeeds under the other, and no
\* unknown institution, type, domain or role ever aborts it.
C8_ValidationIsSoft ==
    Tokens(1) = Tokens(2)
    => /\ parser[1].ps = parser[2].ps
       /\ parser[1].result = parser[2].result

\* both runs accepted an input that one configuration knows and the other
\* does not: one run warned and substituted a role, the other did not
C8_Witness ==
    /\ parser[1].result = "accept" /\ parser[2].result = "accept"
    /\ \E i, j \in 1..2 : parser[i].warnings = 0 /\ parser[j].warnings > 0
    /\ parser[1].current_schema.norms # parser[2].current_schema.norms

(***************************************************************************)
(* SpecGen: main() from the point where parse_schema has returned a        *)
(* Schema, over the schemas the parser builds from bounded inputs: up to   *)
(* MaxNorms norms numbered by the user within 1..MaxNumber, at most one of *)
(* them conditional, and at most one violation.                            *)
(***************************************************************************)
MaxNorms == 2
MaxNumber == 3

GenRoles == <<"comprador", "vendedor">>

GenActions == <<"pagar el precio", "entregar la cosa", "reclamar">>

GenNorm(i, number) ==
    create_norm(number, GenRoles[(i % 2) + 1], "DEONTIC_OBLIGATION",
                GenActions[(i % 3) + 1])

GenConditions ==
    {"NORM_REFERENCE:" \o ToString(k) : k \in 1..MaxNumber} \cup {"hay pago"}

\* the norm lists: n norms with distinct numbers, none or one of them conditional
GenNormLists ==
    UNION {LET plain == {ns \in [1..n -> 1..MaxNumber] :
                            \A i, j \in 1..n : i # j => ns[i] # ns[j]}
           IN  {[i \in 1..n |-> GenNorm(i, ns[i])] : ns \in plain}
               \cup {[i \in 1..n |-> IF i = c THEN add_condition_to_norm(GenNorm(i, ns[i]), d)
                                     ELSE GenNorm(i, ns[i])] :
                        ns \in plain, c \in 1..n, d \in GenConditions}
           : n \in 0..MaxNorms}

GenViolationLists ==
    {<<>>}
    \cup {<<create_violation(k, "vendedor", "DEONTIC_CLAIM_RIGHT", "rescindir el contrato")>> :
             k \in 1..MaxNumber}
    \cup {<<create_compound_violation(k1, k2, "vendedor", "DEONTIC_CLAIM_RIGHT",
                                      "rescindir el contrato")>> :
             k1, k2 \in 1..MaxNumber}

GenSchemas ==
    {[set_institution(create_schema, "Compraventa", "INST_CONTRACT", "MULT_MULTIPLE",
                      "derecho-civil")
         EXCEPT !.norms = ns, !.violations = vs] :
        ns \in GenNormLists, vs \in GenViolationLists}

InitGen ==
    /\ schema \in GenSchemas
    /\ lex = <<>>
    /\ parser = <<>>
    /\ config = <<SalesConfig>>
    /\ kelsen_code = NoCode
    /\ pc = "generate"
    /\ exit_code = Running
    /\ query = NoQuery
    /\ answer = NoSuggestion
    /\ argv = NoArgv

NextGen == GenerateCode \/ Output

SpecGen == InitGen /\ [][NextGen]_vars

\* the positions of the norms numbered k
NormsNumbered(sch, k) == {j \in 1..Len(sch.norms) : sch.norms[j].number = k}

\* the asset identifier the output declares for the norm at position j: the
\* j-th asset of the norm section that is not a Condition asset
NormAssetNames(code) ==
    LET IsNormAsset(st) == st.kind = "asset" /\ strstr(st.name, "Asset")
        found == SelectSeq(code, IsNormAsset)
    IN  [i \in 1..Len(found) |-> found[i].name]

ClausesNamed(code, name) ==
    {i \in StatementsOf(code, "clause") : code[i].name = name}

\* the clauses and the consequence assets the output holds for the c-th violation
ViolationClauses(code, c) ==
    ClausesNamed(code, "viol_clause_" \o ToString(c))
    \cup ClausesNamed(code, "compound_viol_clause_" \o ToString(c))

ConsequenceAssets(code, c) ==
    {i \in StatementsOf(code, "asset") :
        strstr(code[i].name, "Consequence" \o ToString(c))}

IsNormReference(nm) ==
    nm.condition # <<>> /\ strncmp_eq(nm.condition[1], "NORM_REFERENCE:", 15)

ReferencedNumber(nm) == atoi(SubSeq(nm.condition[1], 16, Len(nm.condition[1])))

Generated == pc \in {"output", "exit"} /\ kelsen_code # NoCode

\* C3: for a norm N whose condition refers to the number k of a norm of the
\* schema, the clause generated for N conjoins the institution with exactly
\* the asset declared for the norm numbered k, and N gets no condition string
\* and no Condition asset; this for any numbering the user chose.
C3_ReferenceNamesDeclaredAsset ==
    Generated =>
    \A i \in 1..Len(schema.norms) :
       IsNormReference(schema.norms[i]) =>
       \A j \in NormsNumbered(schema, ReferencedNumber(schema.norms[i])) :
          /\ \E n \in ClausesNamed(kelsen_code, "norm" \o ToString(i)) :
                kelsen_code[n].cond =
                    <<schema.institution.name, NormAssetNames(kelsen_code)[j]>>
          /\ \A n \in 1..Len(kelsen_code) :
                /\ kelsen_code[n].name # "condition" \o ToString(i)
                /\ kelsen_code[n].name # "Condition" \o ToString(i)

\* C4: for every violation and every norm number it refers to that a norm of
\* the schema carries, the identifier inside not(...) in the violation's clause
\* is the asset identifier declared for the norm with that number.
C4_ViolationNamesDeclaredAsset ==
    Generated =>
    \A c \in 1..Len(schema.violations) :
       \A r \in 1..Len(schema.violations[c].violated_norms) :
          \A j \in NormsNumbered(schema, schema.violations[c].violated_norms[r]) :
             \A n \in ViolationClauses(kelsen_code, c) :
                kelsen_code[n].cond[r] =
                    "not(" \o NormAssetNames(kelsen_code)[j] \o ")"

\* C5: a compound violation of two norms of the schema yields exactly one
\* consequence asset and exactly one clause, guarded by not(A1) AND not(A2),
\* the assets of the two referenced norms in the order they were written.
C5_CompoundViolationGuard ==
    Generated =>
    \A c \in 1..Len(schema.violations) :
       LET refs == schema.violations[c].violated_norms IN
       Len(refs) = 2 =>
       \A j1 \in NormsNumbered(schema, refs[1]), j2 \in NormsNumbered(schema, refs[2]) :
          /\ Cardinality(ConsequenceAssets(kelsen_code, c)) = 1
          /\ Cardinality(ViolationClauses(kelsen_code, c)) = 1
          /\ \A n \in ViolationClauses(kelsen_code, c) :
                kelsen_code[n].cond =
                    <<"not(" \o NormAssetNames(kelsen_code)[j1] \o ")",
                      "not(" \o NormAssetNames(kelsen_code)[j2] \o ")">>

\* C6: a reference to a norm number the schema does not hold is recovered:
\* every violation, single or compound, yields at least one consequence asset
\* and one clause, and every conditional norm still gets its clause.
C6_DanglingReferenceRecovered ==
    Generated =>
    /\ \A c \in 1..Len(schema.violations) :
          /\ ConsequenceAssets(kelsen_code, c) # {}
          /\ ViolationClauses(kelsen_code, c) # {}
    /\ \A i \in 1..Len(schema.norms) :
          ClausesNamed(kelsen_code, "norm" \o ToString(i)) # {}

(***************************************************************************)
(* SpecSuggest: one call of config_suggest_institution or                  *)
(* config_suggest_role, over texts of up to MaxLen characters and arrays   *)
(* of up to MaxValues configured values.                                   *)
(***************************************************************************)
MaxLen == 4
MaxValues == 2

SuggestAlphabet == {"a", "B"}

RECURSIVE StringsUpTo(_)
StringsUpTo(n) ==
    IF n = 0 THEN {""}
    ELSE StringsUpTo(n - 1) \cup {t \o c : t \in StringsUpTo(n - 1), c \in SuggestAlphabet}

SuggestTexts == StringsUpTo(MaxLen)

SuggestValues == {"Ab", "ba", "AAAA", "bbbb"}

RECURSIVE ArraysUpTo(_)
ArraysUpTo(n) ==
    IF n = 0 THEN {<<>>}
    ELSE ArraysUpTo(n - 1) \cup {Append(a, v) : a \in ArraysUpTo(n - 1), v \in SuggestValues}

QueryInstitution == "Compraventa"

InitSuggest ==
    /\ query \in [kind : {"institution", "role"}, array : ArraysUpTo(MaxValues),
                  text : SuggestTexts, seen : {""}]
    /\ config = <<[EmptyConfig EXCEPT
                      !.instituciones = query.array,
                      !.roles = <<[key |-> QueryInstitution, value |-> query.array]>>]>>
    /\ lex = <<>>
    /\ parser = <<>>
    /\ schema = NoSchema
    /\ kelsen_code = NoCode
    /\ pc = "suggest"
    /\ exit_code = Running
    /\ answer = NoSuggestion
    /\ argv = NoArgv

\* config_suggest_institution(text), as institution_decl calls it
SuggestInstitution ==
    /\ pc = "suggest" /\ query.kind = "institution"
    /\ answer' = config_suggest_institution(config[1], query.text)
    /\ pc' = "returned"
    /\ UNCHANGED <<lex, parser, config, schema, kelsen_code, exit_code, query, argv>>

\* config_suggest_role(text), as norm and violation call it: the institution
\* was declared, and its name is read through current_institution
SuggestRole ==
    /\ pc = "suggest" /\ query.kind = "role"
    /\ LET ci == [set |-> TRUE, text |-> QueryInstitution, freed |-> TRUE] IN
       \E seen \in CurrentInstitutionReads(ci) :
          /\ answer' = config_suggest_role(config[1], ci, seen, query.text)
          /\ query' = [query EXCEPT !.seen = seen]
    /\ pc' = "returned"
    /\ UNCHANGED <<lex, parser, config, schema, kelsen_code, exit_code, argv>>

NextSuggest == SuggestInstitution \/ SuggestRole

SpecSuggest == InitSuggest /\ [][NextSuggest]_vars

\* The unit-cost edit distance between two strings, letters compared without
\* regard to case, by its defining recursion.
RECURSIVE EditDistanceOf(_, _)
EditDistanceOf(a, b) ==
    IF a = "" THEN Len(b)
    ELSE IF b = "" THEN Len(a)
    ELSE LET ta == SubSeq(a, 2, Len(a))
             tb == SubSeq(b, 2, Len(b))
         IN  IF tolower(CharAt(a, 1)) = tolower(CharAt(b, 1)) THEN EditDistanceOf(ta, tb)
             ELSE LET del == EditDistanceOf(ta, b)
                      ins == EditDistanceOf(a, tb)
                      sub == EditDistanceOf(ta, tb)
                      m == IF del < ins THEN del ELSE ins
                  IN  1 + (IF sub < m THEN sub ELSE m)

EditDistance == [t \in SuggestTexts, v \in SuggestValues |-> EditDistanceOf(t, v)]

\* the configured values the call is about: the institutions, or the roles of
\* the declared institution
Configured ==
    IF query.kind = "institution" THEN config[1].instituciones
    ELSE cJSON_GetObjectItem(config[1].roles, QueryInstitution)

\* the array the call consulted: for roles, the entry of "roles" under the
\* string it read through current_institution
Consulted ==
    IF query.kind = "institution" THEN config[1].instituciones
    ELSE cJSON_GetObjectItem(config[1].roles, query.seen)

\* the answer is an entry of `array` exactly if the least edit distance from
\* the text to an entry is at most 3, and it is then the first entry, in the
\* array's order, at that least distance
SuggestsFrom(array) ==
    LET d(i) == EditDistance[query.text, array[i]]
        least == {i \in 1..Len(array) : \A j \in 1..Len(array) : d(i) <= d(j)}
        first == CHOOSE i \in least : \A j \in least : i <= j
    IN  /\ \A i \in 1..Len(array) : levenshtein_distance(query.text, array[i]) = d(i)
        /\ answer.found <=> \E i \in 1..Len(array) : d(i) <= 3
        /\ answer.found => answer.value = array[first] /\ answer.min_distance = d(first)

\* C9: config_suggest_institution and config_suggest_role return the
\* configured value at the least case-insensitive edit distance from the text
\* exactly if that distance is at most 3, the first such value in the
\* configuration's order, and no suggestion otherwise.
C9_SuggestMinimum == pc = "returned" => SuggestsFrom(Configured)

\* The same statement about the array the call consulted.  It differs from
\* C9_SuggestMinimum only where the read through current_institution did not
\* find the declared institution's name.
SuggestMinimumOfConsulted == pc = "returned" => SuggestsFrom(Consulted)

\* a text at the same least distance from two different entries: the call
\* returned the first of them
SuggestedFirstOfTwo ==
    /\ pc = "returned" /\ answer.found
    /\ Len(Consulted) = 2 /\ Consulted[1] # Consulted[2]
    /\ EditDistance[query.text, Consulted[1]] = EditDistance[query.text, Consulted[2]]
    /\ EditDistance[query.text, Consulted[1]] = 3
    /\ answer.value = Consulted[1]

\* a role within 3 edits of a configured role of the declared institution,
\* and no suggestion returned
RoleSuggestionLost ==
    /\ pc = "returned" /\ query.kind = "role" /\ ~answer.found
    /\ \E i \in 1..Len(Configured) : EditDistance[query.text, Configured[i]] <= 3

(***************************************************************************)
(* Automated norm injection, context_manager.c (part_002 lines 610-794).   *)
(* The three tiers share the counter next_automated_norm_id through the    *)
(* pointer they are handed: every norm id is taken by a post-increment     *)
(* through next_norm_id.  A rule of the configuration is a record of its   *)
(* role, deontic and action texts, with scope and reference <<>> when the  *)
(* member is absent and <<text>> when it is present.                       *)
(***************************************************************************)
IdStep == 100
GeneratedFrom == 1000
MaxOriginalNorms == 100

config_get_deontic_operator(text) ==
    IF strcasecmp(text, "debe") THEN "DEONTIC_OBLIGATION"
    ELSE IF strcasecmp(text, "no-debe") THEN "DEONTIC_PROHIBITION"
    ELSE IF strcasecmp(text, "puede") THEN "DEONTIC_PRIVILEGE"
    ELSE IF strcasecmp(text, "tiene-derecho-a") THEN "DEONTIC_CLAIM_RIGHT"
    ELSE "DEONTIC_OBLIGATION"

\* the automated_norms object without members
NoAutomatedNorms ==
    [present |-> FALSE, domain_defaults |-> <<>>, universal_templates |-> <<>>,
     conditional_on_id |-> <<>>]

config_get_automated_norms(cfg) ==
    IF cfg.loaded THEN cfg.automated_norms ELSE NoAutomatedNorms

RECURSIVE max_norm_number(_, _)
max_norm_number(norms, max_id) ==
    IF norms = <<>> THEN max_id
    ELSE max_norm_number(Tail(norms),
                         IF Head(norms).number > max_id THEN Head(norms).number
                         ELSE max_id)

\* (last_user_norm_id / 100 + 1) * 100
first_automated_norm_id(sch) == ((max_norm_number(sch.norms, 0) \div IdStep) + 1) * IdStep

\* action, with " [Ref: <reference>]" appended when the rule has a reference
action_with_reference(rule) ==
    IF rule.reference # <<>> THEN rule.action \o " [Ref: " \o rule.reference[1] \o "]"
    ELSE rule.action

\* the position of the first occurrence of needle in text, 0 when there is none
strstr_at(text, needle) ==
    LET at == {i \in 1..Len(text) :
                  /\ i + Len(needle) - 1 <= Len(text)
                  /\ SubSeq(text, i, i + Len(needle) - 1) = needle}
    IN  IF at = {} THEN 0 ELSE CHOOSE i \in at : \A k \in at : i <= k

\* text with the first occurrence of placeholder replaced by value
replace_placeholder(text, placeholder, value) ==
    LET at == strstr_at(text, placeholder) IN
    IF at = 0 THEN text
    ELSE SubSeq(text, 1, at - 1) \o value
         \o SubSeq(text, at + Len(placeholder), Len(text))

\* a step that leaves the counter where it was, so that every norm of a tier
\* is given the same id
inject_norm_same_id(st, nm) ==
    [schema |-> add_norm_to_schema(st.schema, [nm EXCEPT !.number = st.next_norm_id]),
     next_norm_id |-> st.next_norm_id]

\* one step of a tier: the norm is created with the id the counter holds, the
\* counter is advanced and the norm is appended to the schema
inject_norm(st, nm) ==
    [schema |-> add_norm_to_schema(st.schema, [nm EXCEPT !.number = st.next_norm_id]),
     next_norm_id |-> st.next_norm_id + 1]

RECURSIVE domain_default_rules(_, _, _)
domain_default_rules(st, rules, i) ==
    IF i > Len(rules) THEN st
    ELSE LET rule == rules[i]
             new_norm == create_norm(0, rule.role, config_get_deontic_operator(rule.deontic),
                                     action_with_reference(rule))
             scoped == IF rule.scope # <<>> THEN add_scope_to_norm(new_norm, rule.scope[1])
                       ELSE new_norm
         IN  domain_default_rules(inject_norm(st, scoped), rules, i + 1)

\* a tier 1 that counts on a counter of its own and leaves the shared one
\* where it was
apply_domain_defaults_own_counter(st, domain_defaults) ==
    [domain_default_rules(st, cJSON_GetObjectItem(domain_defaults,
                                                  st.schema.institution.legal_domain), 1)
        EXCEPT !.next_norm_id = st.next_norm_id]

apply_domain_defaults(st, domain_defaults) ==
    domain_default_rules(st, cJSON_GetObjectItem(domain_defaults,
                                                 st.schema.institution.legal_domain), 1)

RECURSIVE template_rules(_, _, _, _)
template_rules(st, user_norm, templates, i) ==
    IF i > Len(templates) THEN st
    ELSE LET rule == templates[i]
             with_id == replace_placeholder(rule.action, "%{rule_id}",
                                            ToString(user_norm.number))
             final_action == replace_placeholder(with_id, "%{rule_action}",
                                                 user_norm.action)
             new_norm == create_norm(0, rule.role, config_get_deontic_operator(rule.deontic),
                                     final_action)
         IN  template_rules(inject_norm(st, new_norm), user_norm, templates, i + 1)

RECURSIVE template_norms(_, _, _, _)
template_norms(st, original_norms, templates, i) ==
    IF i > Len(original_norms) THEN st
    ELSE template_norms(template_rules(st, original_norms[i], templates, 1),
                        original_norms, templates, i + 1)

apply_universal_templates(st, universal_templates) ==
    LET templates == cJSON_GetObjectItem(universal_templates,
                                         st.schema.institution.legal_domain)
        IsOriginal(nm) == nm.number < GeneratedFrom
        below == SelectSeq(st.schema.norms, IsOriginal)
        original_norms == SubSeq(below, 1, IF Len(below) < MaxOriginalNorms THEN Len(below)
                                           ELSE MaxOriginalNorms)
    IN  IF templates = <<>> THEN st ELSE template_norms(st, original_norms, templates, 1)

RECURSIVE conditional_rules(_, _, _)
conditional_rules(st, rules, i) ==
    IF i > Len(rules) THEN st
    ELSE LET rule == rules[i]
             new_norm == create_norm(0, rule.role, config_get_deontic_operator(rule.deontic),
                                     action_with_reference(rule))
         IN  conditional_rules(inject_norm(st, new_norm), rules, i + 1)

\* the walk goes along the list as it grows: a norm appended by this tier is
\* visited in its turn
RECURSIVE conditional_norms(_, _, _)
conditional_norms(st, conditional_on_id, i) ==
    IF i > Len(st.schema.norms) THEN st
    ELSE LET user_norm == st.schema.norms[i] IN
         IF user_norm.number >= GeneratedFrom
         THEN conditional_norms(st, conditional_on_id, i + 1)
         ELSE conditional_norms(
                  conditional_rules(st, cJSON_GetObjectItem(conditional_on_id,
                                                            ToString(user_norm.number)), 1),
                  conditional_on_id, i + 1)

apply_conditional_on_id(st, conditional_on_id) ==
    conditional_norms(st, conditional_on_id, 1)

schema_apply_automated_norms(sch, cfg) ==
    LET automated_norms_config == config_get_automated_norms(cfg) IN
    IF ~sch.allocated \/ ~automated_norms_config.present THEN sch
    ELSE LET st0 == [schema |-> sch, next_norm_id |-> first_automated_norm_id(sch)]
             st1 == apply_domain_defaults(st0, automated_norms_config.domain_defaults)
             st2 == apply_universal_templates(st1, automated_norms_config.universal_templates)
             st3 == apply_conditional_on_id(st2, automated_norms_config.conditional_on_id)
         IN  st3.schema

(***************************************************************************)
(* SpecEnrich: schema_apply_automated_norms called on a parsed schema of   *)
(* up to MaxUserNorms norms with distinct numbers, and called once more on *)
(* its own result, under one configuration.                                *)
(***************************************************************************)
MaxUserNorms == 2

EnrichNumbers == {1, 99, 100, 250, 1000}

DefaultRule ==
    [role |-> "vendedor", deontic |-> "debe", action |-> "sanear",
     scope |-> <<"la cosa">>, reference |-> <<"CC 1461">>]

SecondDefaultRule ==
    [role |-> "comprador", deontic |-> "no-debe", action |-> "demorar",
     scope |-> <<>>, reference |-> <<>>]

TemplateRule ==
    [role |-> "comprador", deontic |-> "puede",
     action |-> "exigir regla %{rule_id}: %{rule_action}",
     scope |-> <<>>, reference |-> <<>>]

ConditionalRule ==
    [role |-> "vendedor", deontic |-> "tiene-derecho-a", action |-> "retener",
     scope |-> <<>>, reference |-> <<"CC 1466">>]

EnrichDomain == "derecho-civil"

AutomatedDocuments ==
    {NoAutomatedNorms}
    \cup [present : {TRUE},
          domain_defaults : {<<>>, <<[key |-> EnrichDomain, value |-> <<DefaultRule>>]>>,
                             <<[key |-> EnrichDomain,
                                value |-> <<DefaultRule, SecondDefaultRule>>]>>},
          universal_templates : {<<>>, <<[key |-> EnrichDomain, value |-> <<TemplateRule>>]>>},
          conditional_on_id : {<<>>, <<[key |-> "1", value |-> <<ConditionalRule>>]>>,
                               <<[key |-> "100", value |-> <<ConditionalRule>>]>>}]

\* the user-authored norm lists: distinct numbers, in any order
UserNormLists ==
    UNION {{[i \in 1..n |-> create_norm(ns[i], IF i % 2 = 1 THEN "comprador" ELSE "vendedor",
                                        "DEONTIC_OBLIGATION",
                                        IF i % 2 = 1 THEN "pagar" ELSE "entregar")] :
               ns \in {f \in [1..n -> EnrichNumbers] :
                          \A i, k \in 1..n : i # k => f[i] # f[k]}}
           : n \in 0..MaxUserNorms}

NoUserSchema == [schema |-> NoSchema]

InitEnrich ==
    /\ \E ns \in UserNormLists :
          schema = [set_institution(create_schema, "Compraventa", "INST_CONTRACT",
                                    "MULT_MULTIPLE", EnrichDomain)
                       EXCEPT !.norms = ns]
    /\ argv = [schema |-> schema]
    /\ \E doc \in AutomatedDocuments :
          config = <<[automated_norms |-> doc] @@ EmptyConfig>>
    /\ lex = <<>>
    /\ parser = <<>>
    /\ kelsen_code = NoCode
    /\ pc = "enrich"
    /\ exit_code = Running
    /\ query = NoQuery
    /\ answer = NoSuggestion

\* schema_apply_automated_norms(schema): the first call, and a second call on
\* the schema the first one left
Enrich ==
    /\ pc \in {"enrich", "enriched"}
    /\ schema' = schema_apply_automated_norms(schema, config[1])
    /\ pc' = IF pc = "enrich" THEN "enriched" ELSE "enriched_twice"
    /\ UNCHANGED <<lex, parser, config, kelsen_code, exit_code, query, answer, argv>>

NextEnrich == Enrich

SpecEnrich == InitEnrich /\ [][NextEnrich]_vars

\* the norms a schema holds beyond the user-authored ones it was parsed with
AutomatedNorms(sch) == SubSeq(sch.norms, Len(argv.schema.norms) + 1, Len(sch.norms))

UserNumbers == {argv.schema.norms[i].number : i \in 1..Len(argv.schema.norms)}

\* the least multiple of 100 above every user-authored number
NextHundred ==
    CHOOSE m \in {IdStep * k : k \in 1..GeneratedFrom} :
        /\ \A u \in UserNumbers : m > u
        /\ \A k \in 1..GeneratedFrom :
              (\A u \in UserNumbers : IdStep * k > u) => m <= IdStep * k

C12_EnrichIdempotent ==
    pc = "enriched_twice" =>
    Len(AutomatedNorms(schema))
        = Len(AutomatedNorms(schema_apply_automated_norms(argv.schema, config[1])))

(***************************************************************************)
(* SpecRound: main() from generation on, over the schemas of up to         *)
(* MaxRoundNorms plain norms (no condition, violation, fact or agenda),    *)
(* each with any of the four deontic operators, either role, and with or   *)
(* without a scope.                                                        *)
(***************************************************************************)
MaxRoundNorms == 2

Deontics ==
    {"DEONTIC_OBLIGATION", "DEONTIC_PROHIBITION", "DEONTIC_PRIVILEGE", "DEONTIC_CLAIM_RIGHT"}

RoundScopes == {<<>>, <<"el pago">>}

RoundNorm(i, role, deontic, scope) ==
    LET nm == create_norm(i, role, deontic, GenActions[(i % 3) + 1]) IN
    IF scope = <<>> THEN nm ELSE add_scope_to_norm(nm, scope[1])

RoundNormLists ==
    UNION {{[i \in 1..n |-> RoundNorm(i, GenRoles[r[i]], d[i], sc[i])] :
               r \in [1..n -> 1..2], d \in [1..n -> Deontics], sc \in [1..n -> RoundScopes]}
           : n \in 0..MaxRoundNorms}

InitRound ==
    /\ \E ns \in RoundNormLists :
          schema = [set_institution(create_schema, "Compraventa", "INST_CONTRACT",
                                    "MULT_MULTIPLE", "derecho-civil")
                       EXCEPT !.norms = ns]
    /\ lex = <<>>
    /\ parser = <<>>
    /\ config = <<SalesConfig>>
    /\ kelsen_code = NoCode
    /\ pc = "generate"
    /\ exit_code = Running
    /\ query = NoQuery
    /\ answer = NoSuggestion
    /\ argv = NoArgv

SpecRound == InitRound /\ [][NextGen]_vars

\* the clause statements of the output, in output order
ClausesOf(code) ==
    LET IsClause(st) == st.kind = "clause" IN SelectSeq(code, IsClause)

\* reading the operator of a clause back
OperatorRead ==
    [op \in {"OB", "PR", "PVG", "CR"} |->
        CASE op = "OB" -> "DEONTIC_OBLIGATION"
          [] op = "PR" -> "DEONTIC_PROHIBITION"
          [] op = "PVG" -> "DEONTIC_PRIVILEGE"
          [] op = "CR" -> "DEONTIC_CLAIM_RIGHT"]

TwoRoles(sch) ==
    \E i, k \in 1..Len(sch.norms) : sch.norms[i].role # sch.norms[k].role

\* C13: for a schema of plain norms with two distinct roles, the output holds
\* as many clauses as the schema has norms, and reading the operator of the
\* i-th clause back through OB, PR, PVG, CR gives the i-th norm's deontic
\* operator.
C13_NormRoundTrip ==
    (Generated /\ TwoRoles(schema)) =>
    LET clauses == ClausesOf(kelsen_code) IN
    /\ Len(clauses) = Len(schema.norms)
    /\ \A i \in 1..Len(clauses) :
          /\ clauses[i].name = "norm" \o ToString(i)
          /\ clauses[i].args[1] \in DOMAIN OperatorRead
          /\ OperatorRead[clauses[i].args[1]] = schema.norms[i].deontic

\* output generated for a privilege of one role followed by a claim-right of
\* the other
C13_Witness ==
    /\ Generated /\ TwoRoles(schema) /\ Len(schema.norms) = 2
    /\ schema.norms[1].deontic = "DEONTIC_PRIVILEGE"
    /\ schema.norms[2].deontic = "DEONTIC_CLAIM_RIGHT"
    /\ Len(ClausesOf(kelsen_code)) = 2
    /\ ClausesOf(kelsen_code)[1].args[1] = "PVG"

(***************************************************************************)
(* The exit code of main(), under Spec.                                    *)
(***************************************************************************)
\* the run loaded what it was asked to load, opened and parsed its input and
\* generated code
RunSucceeded ==
    /\ argv.config.loaded
    /\ argv.context # "fails"
    /\ argv.opens
    /\ parser # <<>> /\ parser[1].result = "accept"
    /\ schema.allocated
    /\ kelsen_code # NoCode

\* C14: main exits with success only after the configuration (and the context,
\* when requested) loaded, the input opened and parsed and code was generated;
\* a configuration or context that does not load ends the run before the
\* tokenizer and the parser are started; and once the code is in the output
\* file the exit code is success whatever the validator returned.
C14_ExitCode ==
    /\ (pc = "exit" /\ exit_code = EXIT_SUCCESS) => RunSucceeded
    /\ (~argv.config.loaded \/ argv.context = "fails")
          => /\ lex = <<>> /\ parser = <<>>
             /\ pc \in {"config_init", "context_init", "exit"}
             /\ (pc = "exit" => exit_code = EXIT_FAILURE)
    /\ (pc = "exit" /\ RunSucceeded /\ argv.output = "opens")
          => exit_code = EXIT_SUCCESS

\* a run with context whose output file was written and whose validator
\* failed: main returned success
C14_Witness ==
    /\ pc = "exit" /\ RunSucceeded
    /\ argv.context = "loads" /\ argv.output = "opens" /\ argv.validator # 0
    /\ exit_code = EXIT_SUCCESS

\* a run whose context did not load: main returned failure and nothing was parsed
C14_WitnessContext ==
    /\ pc = "exit" /\ argv.config.loaded /\ argv.context = "fails"
    /\ parser = <<>> /\ exit_code = EXIT_FAILURE

(***************************************************************************)
(* The order of the sections, under SpecParse.                             *)
(***************************************************************************)
\* the place of a line's section in the order norms, violations, facts, agendas
SectionOf(line) ==
    CASE line \in NormLines -> 1
      [] line \in ViolationLines -> 2
      [] line \in FactLines -> 3
      [] line \in AgendaLines -> 4
      [] OTHER -> 0

\* the file is a declaration followed by items whose sections never step back
SectionsInOrder(file) ==
    /\ file # <<>> /\ Head(file) \in ParseHeaders
    /\ \A i, k \in 2..Len(file) : i < k => SectionOf(file[i]) <= SectionOf(file[k])

\* what a step of run i may add to the schema, given what the schema holds
KeepsOrder(i) ==
    LET now == parser[i].current_schema
        next == parser'[i].current_schema
    IN  /\ now.violations # <<>> => Len(next.norms) = Len(now.norms)
        /\ now.facts # <<>>
              => /\ Len(next.norms) = Len(now.norms)
                 /\ Len(next.violations) = Len(now.violations)
        /\ now.agendas # <<>>
              => /\ Len(next.norms) = Len(now.norms)
                 /\ Len(next.violations) = Len(now.violations)
                 /\ Len(next.facts) = Len(now.facts)

\* C15: an input is accepted only if it starts with the institution
\* declaration and its items come in the order norms, violations, facts,
\* agendas; and no step of the parser adds a norm once a violation is in the
\* schema, a norm or violation once a fact is, or a norm, violation or fact
\* once an agenda is.
C15_SectionOrder ==
    /\ [](\A i \in 1..Len(parser) :
             parser[i].result = "accept" => SectionsInOrder(lex[i].file))
    /\ [][\A i \in 1..Len(parser) : KeepsOrder(i)]_vars

\* a norm met after a violation was taken into the schema: a syntax error
C15_Witness ==
    /\ parser[1].result = "error"
    /\ parser[1].current_schema.violations # <<>>
    /\ LastToken(lex[1]).type = "NUMBER"
    /\ Len(lex[1].file) = 3 /\ lex[1].file[3] \in NormLines

\* an input of two items without a declaration before them: a syntax error
\* at its first token
C15_WitnessStart ==
    /\ parser[1].result = "error"
    /\ Head(lex[1].file) \notin ParseHeaders
    /\ Tokens(1) = 1

(***************************************************************************)
(* The correction of unknown names, under SpecParse.                       *)
(***************************************************************************)
\* the role to be stored for a role of the input: the role itself when the
\* institution has it configured or has nothing within MaxEdits of it, the
\* nearest configured role otherwise
CorrectedRole(cfg, institution, role) ==
    LET suggestion == suggest_in(cJSON_GetObjectItem(cfg.roles, institution), role) IN
    IF config_is_valid_role_for_institution(cfg, institution, role) THEN role
    ELSE IF cfg.loaded /\ suggestion.found THEN suggestion.value
    ELSE role

\* the institution declared to run i, as it was stored in the schema
DeclaredInstitution(i) == parser[i].current_schema.institution.name

\* a step of run i that adds a norm stores the corrected role in it
NormRoleCorrected(i) ==
    LET now == parser[i].current_schema.norms
        next == parser'[i].current_schema.norms
    IN  Len(next) > Len(now)
        => next[Len(next)].role
              = CorrectedRole(config[i], DeclaredInstitution(i), parser[i].sv.s1)

\* a step of run i that adds a violation stores the corrected role in it
ViolationRoleCorrected(i) ==
    LET now == parser[i].current_schema.violations
        next == parser'[i].current_schema.violations
    IN  Len(next) > Len(now)
        => next[Len(next)].role
              = CorrectedRole(config[i], DeclaredInstitution(i), parser[i].sv.s1)

\* a step of run i that adds an agenda stores both corrected roles in it
AgendaRolesCorrected(i) ==
    LET now == parser[i].current_schema.agendas
        next == parser'[i].current_schema.agendas
        added == next[Len(next)]
    IN  Len(next) > Len(now)
        => /\ added.requesting_role
                 = CorrectedRole(config[i], DeclaredInstitution(i), parser[i].sv.s1)
           /\ added.beneficiary_role
                 = CorrectedRole(config[i], DeclaredInstitution(i), parser[i].sv.s3)

\* the step of run i that reduces the declaration stores the institution
\* name corrected, and the type and the domain as the input has them
InstitutionCorrected(i) ==
    LET cfg == config[i]
        suggestion == suggest_in(cfg.instituciones, parser[i].sv.s1)
        stored == parser'[i].current_schema.institution
    IN  parser[i].ps = "inst_MULTIPLICIDAD" /\ parser'[i].ps = "norm_list"
        => /\ stored.name = IF ArrayHasString(cfg.instituciones, parser[i].sv.s1)
                            THEN parser[i].sv.s1
                            ELSE IF suggestion.found THEN suggestion.value
                            ELSE parser[i].sv.s1
           /\ stored.type = config_get_institution_type(parser[i].sv.s2)
           /\ stored.legal_domain = LastToken(lex'[i]).string

NormRolesCorrected == [][\A i \in 1..Len(parser) : NormRoleCorrected(i)]_vars

ViolationRolesCorrected == [][\A i \in 1..Len(parser) : ViolationRoleCorrected(i)]_vars

AllAgendaRolesCorrected == [][\A i \in 1..Len(parser) : AgendaRolesCorrected(i)]_vars

InstitutionsCorrected == [][\A i \in 1..Len(parser) : InstitutionCorrected(i)]_vars

\* C16: every step that stores a role, in a norm, a violation or an agenda
\* (requesting and beneficiary role), stores the role of the input when the
\* declared institution has it configured or has no configured role within
\* edit distance 3 of it, and that nearest configured role otherwise; the
\* declaration stores the institution name corrected the same way and the
\* type and the domain never substituted.
C16_UnknownRolesCorrected ==
    [][\A i \in 1..Len(parser) :
          /\ NormRoleCorrected(i)
          /\ ViolationRoleCorrected(i)
          /\ AgendaRolesCorrected(i)
          /\ InstitutionCorrected(i)]_vars

\* an agenda stored with a beneficiary role the institution does not have,
\* although a configured role of the institution is within MaxEdits of it
AgendaRoleKeptUnknown ==
    \E i \in 1..Len(parser) :
        \E k \in 1..Len(parser[i].current_schema.agendas) :
            LET stored == parser[i].current_schema.agendas[k].beneficiary_role IN
            CorrectedRole(config[i], DeclaredInstitution(i), stored) # stored

(***************************************************************************)
(* The scope of a norm, under SpecParse.                                   *)
(***************************************************************************)
\* the places in a token stream where a norm begins: a NUMBER that is not
\* the number of a referenced rule or of a violated norm
NormStarts(toks) ==
    {k \in 1..Len(toks) :
        /\ toks[k].type = "NUMBER"
        /\ (k = 1 \/ toks[k - 1].type \notin {"REGLA", "VIOLACION"})}

\* where the i-th norm of the stream begins
NormStart(toks, i) ==
    CHOOSE k \in NormStarts(toks) :
        Cardinality({j \in NormStarts(toks) : j <= k}) = i

\* the scope clause written with the i-th norm of the stream: the STRING
\* after the ACTUA_SOBRE met before the next item begins
SourceScope(toks, i) ==
    LET start == NormStart(toks, i)
        clauses == {j \in (start + 1)..(Len(toks) - 1) :
                       /\ toks[j].type = "ACTUA_SOBRE"
                       /\ \A m \in (start + 1)..j :
                              /\ m \notin NormStarts(toks)
                              /\ toks[m].type \notin {"VIOLACION", "HECHO"}}
    IN  IF clauses = {} THEN NoScope
        ELSE LET j == CHOOSE c \in clauses : TRUE IN
             [present |-> TRUE, description |-> toks[j + 1].string]

\* C17: in an accepted input the schema holds one norm for each norm of the
\* source, and the norm at position k has a scope exactly if the k-th norm
\* of the source was written with a scope clause, its text that clause's.
C17_ScopeOnSameNorm ==
    \A i \in 1..Len(parser) :
        parser[i].result = "accept"
        => LET toks == lex[i].returned
               norms == parser[i].current_schema.norms
           IN  /\ Len(norms) = Cardinality(NormStarts(toks))
               /\ \A k \in 1..Len(norms) : norms[k].scope = SourceScope(toks, k)

\* the scope clause of the second norm stored with the first one
ScopeOnPrecedingNorm ==
    /\ parser[1].result = "accept"
    /\ Len(parser[1].current_schema.norms) = 2
    /\ SourceScope(lex[1].returned, 1) = NoScope
    /\ SourceScope(lex[1].returned, 2).present
    /\ parser[1].current_schema.norms[1].scope = SourceScope(lex[1].returned, 2)
    /\ parser[1].current_schema.norms[2].scope = NoScope

\* the scope clause of the first norm of the schema stored nowhere
ScopeLost ==
    /\ parser[1].result = "accept"
    /\ Len(parser[1].current_schema.norms) = 1
    /\ SourceScope(lex[1].returned, 1).present
    /\ parser[1].current_schema.norms[1].scope = NoScope

(***************************************************************************)
(* SpecWord: yyparse on an input that is one word, or one institution      *)
(* declaration, to see which token each word is given.                     *)
(***************************************************************************)
\* the keywords of the closed set, by the token each stands for
KeywordSpellings ==
    [DEBE |-> {"debe"}, NO_DEBE |-> {"no-debe"}, PUEDE |-> {"puede"},
     TIENE_DERECHO |-> {"tiene-derecho-a"}, EN_CASO_QUE |-> {"en-caso-que"},
     Y |-> {"y"}, VIOLACION |-> {"violación", "violacion"},
     ENTONCES |-> {"entonces"}, HECHO |-> {"hecho"}, EVIDENCIA |-> {"evidencia"},
     BUSCA_ACTO |-> {"busca"}, ESTABLEZCA |-> {"establezca"},
     CUMPLIMIENTO |-> {"cumplimiento"}, INCUMPLIMIENTO |-> {"incumplimiento"},
     ADJUDIQUE |-> {"adjudique"}, LO_ESENCIAL |-> {"lo-esencial", "esencial"},
     LO_SIGUIENTE |-> {"lo-siguiente", "siguiente"},
     ACTUA_SOBRE |-> {"actua", "actua-sobre"}, REGLA |-> {"regla"}]

KeywordTokens == DOMAIN KeywordSpellings

Keywords == UNION {KeywordSpellings[t] : t \in KeywordTokens}

InstitutionTypeWords ==
    {"contrato", "procedimiento", "acto-juridico", "hecho-juridico", "acto", "hecho"}

MultiplicityWords == {"múltiples", "multiples", "multiple", "una", "single"}

\* each keyword as it is, in capitals, and with letters after it
KeywordVariants ==
    Keywords \cup {UpperStr(k) : k \in Keywords}
             \cup {k \o "s" : k \in Keywords}
             \cup {k \o "-juridico" : k \in Keywords}

WordInputs ==
    {[kind |-> "word", word |-> w, type |-> "", multiplicity |-> ""] :
        w \in KeywordVariants \cup InstitutionTypeWords \cup MultiplicityWords}
    \cup {[kind |-> "declaration", word |-> "", type |-> t, multiplicity |-> m] :
             t \in InstitutionTypeWords, m \in MultiplicityWords}

WordFile(in) ==
    IF in.kind = "word" THEN <<in.word \o "\n">>
    ELSE <<Header("Compraventa", in.type, in.multiplicity, "derecho-civil")>>

InitWord ==
    /\ argv \in WordInputs
    /\ lex = <<tokenizer_init(WordFile(argv)).lx>>
    /\ config = <<SalesConfig>>
    /\ parser = <<yyparse_init>>
    /\ schema = NoSchema
    /\ kelsen_code = NoCode
    /\ pc = "yyparse"
    /\ exit_code = Running
    /\ query = NoQuery
    /\ answer = NoSuggestion

NextWord == YYParse

SpecWord == InitWord /\ [][NextWord]_vars

\* C18: the token given to a word is a keyword token only if the word is a
\* keyword of the closed set, whatever its case; and the declaration of an
\* institution of type hecho-juridico is accepted, the type of the schema
\* legal-fact.
C18_KeywordExactMatch ==
    /\ (argv.kind = "word" /\ Tokens(1) >= 1 /\ lex[1].returned[1].type \in KeywordTokens)
       => \E k \in KeywordSpellings[lex[1].returned[1].type] : strcasecmp(argv.word, k)
    /\ (argv.kind = "declaration" /\ argv.type = "hecho-juridico"
        /\ AtEndOfInput(lex[1]))
       => /\ parser[1].result = "accept"
          /\ parser[1].current_schema.institution.type = "INST_LEGAL_FACT"

\* a word that only begins with a keyword given the keyword's token
KeywordTokenForLongerWord ==
    /\ argv.kind = "word" /\ argv.word = "violacions"
    /\ Tokens(1) = 1 /\ lex[1].returned[1].type = "VIOLACION"

\* the type hecho-juridico given the token of the fact marker, a syntax error
\* in the declaration
TypeTakenForFactMarker ==
    /\ argv.kind = "declaration" /\ argv.type = "hecho-juridico"
    /\ Tokens(1) = 3 /\ lex[1].returned[3].type = "HECHO"
    /\ parser[1].result = "error"

\* C19: every multiplicity word reaches the parser as a MULTIPLICIDAD token
\* that carries the word: alone in the input it is the first token, in a
\* declaration the fourth.
C19_MultiplicityReachesParser ==
    /\ (argv.kind = "word" /\ argv.word \in MultiplicityWords /\ Tokens(1) >= 1)
       => lex[1].returned[1] = Token("MULTIPLICIDAD", argv.word, 0)
    /\ (argv.kind = "declaration" /\ argv.type \notin {"hecho", "hecho-juridico"}
        /\ Tokens(1) >= 4)
       => lex[1].returned[4] = Token("MULTIPLICIDAD", argv.multiplicity, 0)

\* the multiplicity una dropped from a declaration: its domain is the fourth
\* token and the declaration is a syntax error
MultiplicityDropped ==
    /\ argv.kind = "declaration" /\ argv.multiplicity = "una"
    /\ argv.type = "contrato"
    /\ Tokens(1) = 4 /\ lex[1].returned[4].type = "DOMINIO_LEGAL"
    /\ parser[1].result = "error"

(***************************************************************************)
(* The current-institution context, under SpecParse.                       *)
(***************************************************************************)
\* the places in the grammar from which the next token can complete a norm,
\* a violation or an agenda, whose action validates a role
RoleCheckAhead ==
    {"action_STRING", "action", "scope_ACTUA_SOBRE", "viol_deontic_op",
     "agenda_ROL2", "agenda_LO_SIGUIENTE"}

\* C20: whenever a role is about to be validated or suggested, the context
\* is set, the string it points at has not been released, and a read through
\* it finds the institution name stored in the schema and nothing else.
C20_CurrentInstitutionLive ==
    \A i \in 1..Len(parser) :
        (parser[i].result = "running" /\ parser[i].ps \in RoleCheckAhead)
        => LET ci == parser[i].current_institution IN
           /\ ci.set
           /\ ~ci.freed
           /\ CurrentInstitutionReads(ci) = {parser[i].current_schema.institution.name}

\* a norm about to be reduced while the context points at released storage
RoleCheckedThroughReleasedName ==
    /\ parser[1].result = "running" /\ parser[1].ps = "action_STRING"
    /\ parser[1].current_institution.set /\ parser[1].current_institution.freed
    /\ "" \in CurrentInstitutionReads(parser[1].current_institution)

(***************************************************************************)
(* What drives the second and third tier, under SpecEnrich.                *)
(***************************************************************************)
\* the rules the configuration lists under a key of one of its three members
RulesFor(member, key) == cJSON_GetObjectItem(member, key)

\* the norms of the schema past the user-authored ones that a rule of the
\* given deontic text produced (the rules of the three tiers differ in it)
InjectedBy(sch, rule) ==
    {k \in 1..Len(AutomatedNorms(sch)) :
        /\ AutomatedNorms(sch)[k].role = rule.role
        /\ AutomatedNorms(sch)[k].deontic = config_get_deontic_operator(rule.deontic)}

RECURSIVE ConditionalEntries(_, _)
\* how many entries the configuration keys by the numbers of the given norms
ConditionalEntries(norms, conditional_on_id) ==
    IF norms = <<>> THEN 0
    ELSE Len(RulesFor(conditional_on_id, ToString(Head(norms).number)))
         + ConditionalEntries(Tail(norms), conditional_on_id)

\* C21: after one injection the schema holds one template norm for each pair
\* of a user-authored norm and a template of the domain, written with that
\* norm's number and action, and as many conditional norms as the
\* configuration keys by the numbers of the user-authored norms.
C21_UserNormsDriveTiers ==
    pc = "enriched" =>
    LET doc == config_get_automated_norms(config[1])
        user == argv.schema.norms
        templates == RulesFor(doc.universal_templates, EnrichDomain)
    IN  doc.present
        => /\ Cardinality(InjectedBy(schema, TemplateRule)) = Len(user) * Len(templates)
           /\ templates # <<>>
              => \A u \in 1..Len(user) :
                    \E k \in InjectedBy(schema, TemplateRule) :
                        AutomatedNorms(schema)[k].action
                            = "exigir regla " \o ToString(user[u].number) \o ": "
                              \o user[u].action
           /\ Cardinality(InjectedBy(schema, ConditionalRule))
                 = ConditionalEntries(user, doc.conditional_on_id)

\* a template applied to a norm the first tier injected
TemplateOnInjectedNorm ==
    /\ pc = "enriched"
    /\ \E k \in InjectedBy(schema, TemplateRule) :
          AutomatedNorms(schema)[k].action = "exigir regla 100: sanear [Ref: CC 1461]"

\* a conditional entry keyed 100 taken for a norm the first tier numbered 100
ConditionalOnInjectedNorm ==
    /\ pc = "enriched"
    /\ 100 \notin UserNumbers
    /\ InjectedBy(schema, ConditionalRule) # {}

\* a user-authored norm numbered 1000 left without its template norm
UserNormPassedOver ==
    /\ pc = "enriched"
    /\ UserNumbers = {1000}
    /\ RulesFor(config_get_automated_norms(config[1]).universal_templates, EnrichDomain) # <<>>
    /\ InjectedBy(schema, TemplateRule) = {}

(***************************************************************************)
(* SpecEmit: main() from generation on, over schemas chosen for what the   *)
(* generator writes out: free texts with punctuation in them, norms with   *)
(* and without a scope, facts, agendas, and many roles.                    *)
(***************************************************************************)
EmitTexts == {"pagar el precio", "pagar $100, ya", "avisar (por escrito) [hoy]; 'ya' {5%}"}

EmitSchema(norms, violations, facts, agendas) ==
    [set_institution(create_schema, "Compraventa", "INST_CONTRACT", "MULT_MULTIPLE",
                     "derecho-civil")
        EXCEPT !.norms = norms, !.violations = violations, !.facts = facts,
               !.agendas = agendas]

\* one norm, with or without a free-text condition, a violation of it and a
\* fact, their texts drawn from EmitTexts
TextSchemas ==
    {EmitSchema(<<IF c = <<>> THEN create_norm(1, "comprador", "DEONTIC_OBLIGATION", a)
                  ELSE add_condition_to_norm(
                           create_norm(1, "comprador", "DEONTIC_OBLIGATION", a), c[1])>>,
                <<create_violation(1, "vendedor", "DEONTIC_CLAIM_RIGHT", q)>>,
                <<create_legal_fact(f, f)>>, <<>>) :
        a \in EmitTexts, c \in {<<>>} \cup {<<t>> : t \in EmitTexts},
        q \in EmitTexts, f \in EmitTexts}

EmitActions ==
    {"pagar", "no revelar el precio", "abstenerse de vender", "evitar el daño",
     "notificar"}

EmitScopes == {<<>>, <<"el pago">>, <<"la cosa">>, <<"el inmueble">>, <<"la propiedad">>}

EmitNorm(number, role, action, scope) ==
    LET nm == create_norm(number, role, "DEONTIC_OBLIGATION", action) IN
    IF scope = <<>> THEN nm ELSE add_scope_to_norm(nm, scope[1])

\* one or two norms, each with any of the actions and with or without a scope
ScopedSchemas ==
    {EmitSchema(<<EmitNorm(1, "comprador", a, sc)>>, <<>>, <<>>, <<>>) :
        a \in EmitActions, sc \in EmitScopes}
    \cup {EmitSchema(<<EmitNorm(1, "comprador", "pagar", <<>>),
                       EmitNorm(2, "vendedor", a, sc)>>, <<>>, <<>>, <<>>) :
             a \in EmitActions, sc \in EmitScopes}

\* enough roles to fill the roles array and go past it
MaxEmitRoles == MaxRoles + 2

EmitRole(k) == "el-r" \o ToString(k)

\* n norms of n different roles, then none or one violation and none or one
\* agenda, whose roles are new ones or the role of the first norm
RoleSchemas ==
    UNION {{EmitSchema([i \in 1..n |-> EmitNorm(i, EmitRole(i), "pagar", <<>>)],
                       IF v = 0 THEN <<>>
                       ELSE <<create_violation(1, EmitRole(v), "DEONTIC_CLAIM_RIGHT",
                                               "rescindir")>>,
                       <<>>,
                       IF a = 0 THEN <<>>
                       ELSE <<set_agenda_essential(
                                  create_agenda(EmitRole(a), "COMPLIANCE_FULFILLED",
                                                "Compraventa", EmitRole(a + 1)), TRUE)>>) :
               v \in {0, 1, n + 1}, a \in {0, 1, n + 2}}
           : n \in 1..MaxEmitRoles}

FactDescriptions ==
    {"se debe pagar hoy", "pagar y entregar la cosa", "entregar la cosa", "llueve"}

\* up to two norms and one or two facts whose descriptions hold the action of
\* the first norm, of the second, of both or of none
FactSchemas ==
    {EmitSchema(ns, <<>>, fs, <<>>) :
        ns \in {<<>>, <<EmitNorm(1, "comprador", "pagar", <<>>)>>,
                <<EmitNorm(1, "comprador", "pagar", <<>>),
                  EmitNorm(2, "vendedor", "entregar la cosa", <<>>)>>,
                <<EmitNorm(1, "vendedor", "entregar la cosa", <<>>),
                  EmitNorm(2, "comprador", "pagar", <<>>)>>},
        fs \in {<<create_legal_fact(d, "recibo")>> : d \in FactDescriptions}
               \cup {<<create_legal_fact(d, "recibo"), create_legal_fact(e, "")>> :
                        d \in FactDescriptions, e \in FactDescriptions}}

MaxAgendaNorms == 2

\* an agenda as the parser builds it: essential, or with one remedy
EmitAgendas ==
    {set_agenda_essential(create_agenda("comprador", c, "Compraventa", "vendedor"), TRUE) :
        c \in {"COMPLIANCE_FULFILLED", "COMPLIANCE_BREACHED"}}
    \cup {add_norm_remedy_to_agenda(
              create_agenda("vendedor", c, "Compraventa", "comprador"), r) :
             c \in {"COMPLIANCE_FULFILLED", "COMPLIANCE_BREACHED"},
             r \in {"devolver el precio"}}

\* up to MaxAgendaNorms norms, numbered 10, 20, .., and one or two agendas
AgendaSchemas ==
    UNION {{EmitSchema([i \in 1..n |->
                           EmitNorm(10 * i, IF i % 2 = 1 THEN "comprador" ELSE "vendedor",
                                    act[i], <<>>)],
                       <<>>, <<>>, ags) :
               act \in [1..n -> {"pagar", "entregar la cosa"}],
               ags \in {<<a>> : a \in EmitAgendas}
                       \cup {<<a, b>> : a \in EmitAgendas, b \in EmitAgendas}}
           : n \in 0..MaxAgendaNorms}

\* the names an institution can be given: one of them is also the name that
\* generate_distinctive_string_name gives to the action "pagar" of norm 1
EmitInstitutionNames == {"Compraventa", "pagar_1"}

\* two norms whose roles differ, or differ only in the case of a letter, and
\* whose actions are the same or not, one of them reading as a generated
\* name; with or without a violation of norm 1
NameSchemas ==
    {[EmitSchema(<<EmitNorm(1, r[1], a, <<>>), EmitNorm(2, r[2], b, <<>>)>>,
                 IF v = 0 THEN <<>>
                 ELSE <<create_violation(1, r[1], "DEONTIC_CLAIM_RIGHT", "rescindir")>>,
                 <<>>, <<>>) EXCEPT !.institution.name = n] :
        n \in EmitInstitutionNames,
        r \in {<<"el-comprador", "el-vendedor">>, <<"el-Comprador", "el-comprador">>},
        a \in {"pagar", "violation string"},
        b \in {"pagar", "violation string"},
        v \in {0, 1}}

EmitSchemas ==
    TextSchemas \cup ScopedSchemas \cup RoleSchemas \cup FactSchemas \cup AgendaSchemas
    \cup NameSchemas

InitEmit ==
    /\ schema \in EmitSchemas
    /\ lex = <<>>
    /\ parser = <<>>
    /\ config = <<SalesConfig>>
    /\ kelsen_code = NoCode
    /\ pc = "generate"
    /\ exit_code = Running
    /\ query = NoQuery
    /\ answer = NoSuggestion
    /\ argv = NoArgv

SpecEmit == InitEmit /\ [][NextGen]_vars

\* what the rule for string literals makes of one character
LiteralOf(c) ==
    IF c \in {"$", "\"", "'", ",", ";", "{", "%", "}"} THEN ""
    ELSE IF c \in {"(", ")", "[", "]"} THEN " "
    ELSE c

RECURSIVE LiteralUpTo(_, _)
\* the literal of the first n characters of a text
LiteralUpTo(text, n) ==
    IF n = 0 THEN "" ELSE LiteralUpTo(text, n - 1) \o LiteralOf(CharAt(text, n))

Literal(text) == LiteralUpTo(text, Len(text))

\* the value the output gives the string declared under a name
StringValues(code, name) ==
    {code[i].args[1] : i \in {k \in StatementsOf(code, "string") : code[k].name = name}}

\* C22: in the output the string of each norm's action, of each free-text
\* condition and of each violation's consequence, and the description and
\* evidence of each fact, are the literal of the schema's text: the
\* characters $ " ' , ; { % } dropped, each of ( ) [ ] turned into a space,
\* every other character kept in its place.
C22_LiteralsSanitized ==
    Generated =>
    /\ \A i \in 1..Len(schema.norms) :
          /\ StringValues(kelsen_code, norm_string_names(schema, i))
                = {Literal(schema.norms[i].action)}
          /\ (schema.norms[i].condition # <<>> /\ ~IsNormReference(schema.norms[i]))
             => StringValues(kelsen_code, "condition" \o ToString(i))
                   = {Literal(schema.norms[i].condition[1])}
    /\ \A c \in 1..Len(schema.violations) :
          StringValues(kelsen_code, "violation_string_" \o ToString(c))
              \cup StringValues(kelsen_code, "compound_violation_string_" \o ToString(c))
          = {Literal(schema.violations[c].consequence)}
    /\ LET facts == SelectSeq(kelsen_code, LAMBDA st : st.kind = "fact") IN
       /\ Len(facts) = Len(schema.facts)
       /\ \A f \in 1..Len(facts) :
             /\ facts[f].args[2] = Literal(schema.facts[f].description)
             /\ facts[f].args[3] = Literal(schema.facts[f].evidence)

\* the part of C22 about the actions of the norms
ActionLiteralsSanitized ==
    Generated =>
    \A i \in 1..Len(schema.norms) :
        StringValues(kelsen_code, norm_string_names(schema, i))
            = {Literal(schema.norms[i].action)}

\* an action with punctuation written out as its literal
ActionSanitized ==
    /\ Generated
    /\ schema.norms[1].action = "pagar $100, ya"
    /\ StringValues(kelsen_code, norm_string_names(schema, 1)) = {"pagar 100 ya"}

\* a consequence written into a string literal with its $ and its comma
ConsequenceNotSanitized ==
    /\ Generated
    /\ StringValues(kelsen_code, "violation_string_1") = {"pagar $100, ya"}

(***************************************************************************)
(* The operator of a Service asset, under SpecEmit.                        *)
(***************************************************************************)
\* the action holds one of the three cues of an omission
NegationCue(action) ==
    strstr(action, "no ") \/ strstr(action, "abstenerse") \/ strstr(action, "evitar")

\* the asset statements the output declares for the norms, in schema order
NormAssetsOf(code) ==
    SelectSeq(code, LAMBDA st : st.kind = "asset" /\ strstr(st.name, "Asset"))

\* C23: the asset of each norm that is a Service is written with the operator
\* "-" when the action of the norm holds a negation cue and with "+" when it
\* holds none, with and without a scope on the norm.
C23_NegationOperator ==
    Generated =>
    LET assets == NormAssetsOf(kelsen_code) IN
    /\ Len(assets) = Len(schema.norms)
    /\ \A i \in 1..Len(assets) :
          assets[i].args[1] = "Service"
          => assets[i].args[2] = IF NegationCue(schema.norms[i].action) THEN "-" ELSE "+"

\* the part of C23 about the norms that have a scope
ScopedNegationOperator ==
    Generated =>
    \A i \in 1..Len(schema.norms) :
        (schema.norms[i].scope.present /\ NormAssetsOf(kelsen_code)[i].args[1] = "Service")
        => NormAssetsOf(kelsen_code)[i].args[2]
              = IF NegationCue(schema.norms[i].action) THEN "-" ELSE "+"

\* an omission with a scope written with "-"
OmissionWithScope ==
    /\ Generated
    /\ Len(schema.norms) = 1 /\ schema.norms[1].scope.present
    /\ schema.norms[1].action = "abstenerse de vender"
    /\ NormAssetsOf(kelsen_code)[1].args = <<"Service", "-", "COMPRADOR",
                                             norm_string_names(schema, 1), "PLACEHOLDER">>

\* an omission without a scope written with "+"
OmissionWithoutScope ==
    /\ Generated
    /\ Len(schema.norms) = 1 /\ ~schema.norms[1].scope.present
    /\ NegationCue(schema.norms[1].action)
    /\ NormAssetsOf(kelsen_code)[1].args[2] = "+"

(***************************************************************************)
(* The subject declarations, under SpecEmit.                               *)
(***************************************************************************)
RECURSIVE FirstSeen(_, _)
\* the distinct members of a sequence in the order of their first occurrence
FirstSeen(seq, seen) ==
    IF seq = <<>> THEN seen
    ELSE FirstSeen(Tail(seq),
                   IF \E i \in 1..Len(seen) : seen[i] = Head(seq) THEN seen
                   ELSE Append(seen, Head(seq)))

\* the roles of a schema as they are met: norms, violations, then the
\* requesting and the beneficiary role of each agenda
RolesObserved(sch) ==
    [i \in 1..Len(sch.norms) |-> sch.norms[i].role]
    \o [i \in 1..Len(sch.violations) |-> sch.violations[i].role]
    \o [i \in 1..(2 * Len(sch.agendas)) |->
            IF i % 2 = 1 THEN sch.agendas[(i + 1) \div 2].requesting_role
            ELSE sch.agendas[i \div 2].beneficiary_role]

SubjectsOf(code) == SelectSeq(code, LAMBDA st : st.kind = "subject")

\* C24: whenever code has been generated it declares one subject for each
\* distinct role of the schema, in first-seen order, under the role's name
\* in capitals: no role is left without its subject, however many there are.
C24_SubjectPerRole ==
    Generated =>
    LET roles == FirstSeen(RolesObserved(schema), <<>>)
        subjects == SubjectsOf(kelsen_code)
    IN  /\ Len(subjects) = Len(roles)
        /\ \A i \in 1..Len(roles) :
              /\ i <= Len(subjects)
              /\ subjects[i].name = UpperStr(roles[i])
              /\ subjects[i].args[1] = "Placeholder " \o roles[i]

\* the part of C24 about the schemas of no more than MaxRoles distinct roles
SubjectPerRoleWithinLimit ==
    (Generated /\ Len(FirstSeen(RolesObserved(schema), <<>>)) <= MaxRoles) =>
    LET roles == FirstSeen(RolesObserved(schema), <<>>)
        subjects == SubjectsOf(kelsen_code)
    IN  /\ Len(subjects) = Len(roles)
        /\ \A i \in 1..Len(roles) : subjects[i].name = UpperStr(roles[i])

\* code generated for MaxRoles + 1 norms of different roles, with MaxRoles
\* subjects: the last role has none
RoleWithoutSubject ==
    /\ Generated
    /\ Len(schema.norms) = MaxRoles + 1
    /\ schema.violations = <<>> /\ schema.agendas = <<>>
    /\ Len(SubjectsOf(kelsen_code)) = MaxRoles
    /\ \A i \in 1..Len(kelsen_code) :
          kelsen_code[i].name # UpperStr(schema.norms[MaxRoles + 1].role)

\* the second role of an agenda stored past the end of the roles array
RoleStoredPastArray ==
    /\ Generated
    /\ Len(schema.norms) = MaxRoles - 1
    /\ Len(unique_roles(schema)) = MaxRoles + 1
    /\ Len(SubjectsOf(kelsen_code)) \in {MaxRoles, MaxRoles + 1}

(***************************************************************************)
(* The asset a fact is attached to, under SpecEmit.                        *)
(***************************************************************************)
FactsOf(code) == SelectSeq(code, LAMBDA st : st.kind = "fact")

\* the norms of the schema whose action occurs in a description
NormsNamedIn(sch, description) ==
    {i \in 1..Len(sch.norms) : strstr(description, sch.norms[i].action)}

\* C25: the output holds one fact entry for each fact of the schema, attached
\* to the asset declared for the first norm whose action occurs in the
\* fact's description, and to the institution's asset when there is no such
\* norm.
C25_FactOnRelatedAsset ==
    Generated =>
    LET facts == FactsOf(kelsen_code)
        assets == NormAssetsOf(kelsen_code)
    IN  /\ Len(facts) = Len(schema.facts)
        /\ \A f \in 1..Len(facts) :
              LET named == NormsNamedIn(schema, schema.facts[f].description) IN
              facts[f].args[1] =
                  IF named = {} THEN schema.institution.name
                  ELSE assets[CHOOSE i \in named : \A k \in named : i <= k].name

\* the part of C25 that does not depend on the norms: one entry per fact,
\* on the institution's asset when no action occurs in the description
FactOnBaseAsset ==
    Generated =>
    /\ Len(FactsOf(kelsen_code)) = Len(schema.facts)
    /\ \A f \in 1..Len(schema.facts) :
          NormsNamedIn(schema, schema.facts[f].description) = {}
          => FactsOf(kelsen_code)[f].args[1] = schema.institution.name

\* a fact that names the action of norm 1 attached to the institution's asset
RelatedNormIgnored ==
    /\ Generated
    /\ Len(schema.facts) = 1 /\ schema.facts[1].description = "se debe pagar hoy"
    /\ Len(schema.norms) = 1 /\ schema.norms[1].action = "pagar"
    /\ FactsOf(kelsen_code)[1].args[1] = "Compraventa"

(***************************************************************************)
(* The block of an agenda, under SpecEmit.                                 *)
(***************************************************************************)
AgendasOf(code) == SelectSeq(code, LAMBDA st : st.kind = "agenda")

\* C26: the block of an essential agenda is the institution's asset followed
\* by the identifiers the norm-asset section declares, one per norm and in
\* schema order; the block of an agenda that is not essential is the
\* institution's asset followed by its remedies as comments, and names no
\* declared norm asset.
C26_EssentialAgendaBlock ==
    Generated =>
    LET blocks == AgendasOf(kelsen_code)
        assets == NormAssetsOf(kelsen_code)
    IN  /\ Len(blocks) = Len(schema.agendas)
        /\ \A k \in 1..Len(blocks) :
              LET ag == schema.agendas[k] IN
              IF ag.is_essential
              THEN blocks[k].cond
                      = <<schema.institution.name>>
                        \o [i \in 1..Len(schema.norms) |-> assets[i].name]
              ELSE /\ blocks[k].cond
                         = <<schema.institution.name>>
                           \o [i \in 1..Len(ag.norm_remedies) |->
                                   "// " \o ag.norm_remedies[i]]
                   /\ \A m \in 1..Len(blocks[k].cond), i \in 1..Len(assets) :
                         blocks[k].cond[m] # assets[i].name

\* an essential agenda and one with a remedy generated for two norms whose
\* numbers are not their positions
C26_Witness ==
    /\ Generated
    /\ Len(schema.norms) = 2 /\ schema.norms[2].number = 20
    /\ Len(schema.agendas) = 2
    /\ schema.agendas[1].is_essential /\ ~schema.agendas[2].is_essential
    /\ AgendasOf(kelsen_code)[1].cond = <<"Compraventa", "PagarAsset1", "EntregarAsset2">>
    /\ AgendasOf(kelsen_code)[2].cond = <<"Compraventa", "// devolver el precio">>

(***************************************************************************)
(* SpecTwice: generate_kelsen_code called twice on one schema of           *)
(* EmitSchemas.  `argv` keeps the schema as it was before the first call   *)
(* and `answer` the text the first call returned.                          *)
(***************************************************************************)
InitTwice ==
    /\ schema \in EmitSchemas
    /\ argv = [schema |-> schema]
    /\ lex = <<>>
    /\ parser = <<>>
    /\ config = <<SalesConfig>>
    /\ kelsen_code = NoCode
    /\ pc = "generate_once"
    /\ exit_code = Running
    /\ query = NoQuery
    /\ answer = NoCode

\* the first call: generate_kelsen_code writes to its local buffers, to the
\* static norm_string_names and to the text it returns, never to the schema
GenerateOnce ==
    /\ pc = "generate_once"
    /\ \E roles \in roles_read(schema) : answer' = generate_kelsen_code(schema, roles)
    /\ pc' = "generate_again"
    /\ UNCHANGED <<lex, parser, config, schema, kelsen_code, exit_code, query, argv>>

\* the second call, on the schema the first one left
GenerateAgain ==
    /\ pc = "generate_again"
    /\ \E roles \in roles_read(schema) : kelsen_code' = generate_kelsen_code(schema, roles)
    /\ pc' = "output"
    /\ UNCHANGED <<lex, parser, config, schema, exit_code, query, answer, argv>>

NextTwice == GenerateOnce \/ GenerateAgain

SpecTwice == InitTwice /\ [][NextTwice]_vars

\* C27: after each call the schema is what it was before the first one, its
\* institution and its four lists with their order, fields, scopes and
\* conditions; and the second call returns the text the first one returned.
C27_GenerationReadsOnly ==
    /\ schema = argv.schema
    /\ pc = "output" => kelsen_code = answer

\* the part of C27 about the schema
SchemaUnchangedByGeneration == schema = argv.schema

\* the part of C27 about the text, for the schemas that keep within the array
\* of roles
SameTextWithinRoleLimit ==
    (pc = "output" /\ Len(unique_roles(schema)) <= MaxRoles) => kelsen_code = answer

\* two calls on a schema whose agenda stores a role past the array of roles,
\* the first text with a subject for it and the second without
TextsDiffer ==
    /\ pc = "output"
    /\ Len(unique_roles(schema)) = MaxRoles + 1
    /\ Len(SubjectsOf(answer)) = MaxRoles + 1
    /\ Len(SubjectsOf(kelsen_code)) = MaxRoles

(***************************************************************************)
(* SpecEof: the caller asks the tokenizer for token after token, on past   *)
(* the end of the input.  SpecEofLive adds that the caller goes on asking. *)
(***************************************************************************)
MaxYylexCalls == 12
MaxEofCalls == 3

\* the lines that open a quoted string and never close it, with the text
\* from the quote to the end of the line buffer
UnterminatedLines ==
    [line \in {"3 vendedor \"sin cerrar\n", "4 puede \"abierta"} |->
        IF line = "4 puede \"abierta" THEN "abierta" ELSE "sin cerrar\n"]

EofLines ==
    {"1 el-comprador debe \"pagar\"\n", "\n", " , ; \n", "hello please\n", "y"}
    \cup DOMAIN UnterminatedLines

\* one line or two; only the last line may lack its newline
EofFiles ==
    {<<l>> : l \in EofLines}
    \cup {<<l, m>> : l \in {e \in EofLines : CharAt(e, Len(e)) = "\n"}, m \in EofLines}

InitEof ==
    /\ \E f \in EofFiles : lex = <<tokenizer_init(f).lx>>
    /\ parser = <<>>
    /\ config = <<>>
    /\ schema = NoSchema
    /\ kelsen_code = NoCode
    /\ pc = "yylex"
    /\ exit_code = Running
    /\ query = NoQuery
    /\ answer = NoSuggestion
    /\ argv = NoArgv

\* the end-of-input tokens returned so far
EofCount == Cardinality({k \in 1..Tokens(1) : lex[1].returned[k] = EndOfInput})

\* one call of yylex, whether or not end of input was returned before
\* a further call of yylex can be made
YylexEnabled == Tokens(1) < MaxYylexCalls /\ EofCount < MaxEofCalls

YylexCall ==
    /\ YylexEnabled
    /\ lex' = [lex EXCEPT ![1] = yylex(lex[1])]
    /\ UNCHANGED <<parser, config, schema, kelsen_code, pc, exit_code, query, answer, argv>>

NextEof == YylexCall

SpecEof == InitEof /\ [][NextEof]_vars

\* The caller of yylex, yyparse, asks for the next token until it is given
\* end of input: weak fairness of YylexCall.  WF_vars(YylexCall) is written
\* out with ENABLED <<YylexCall>>_vars replaced by the guard YylexEnabled,
\* to which it is equal because every call of yylex lengthens
\* lex[1].returned.
SpecEofLive == SpecEof /\ ([]<>(~YylexEnabled) \/ []<><<YylexCall>>_vars)

\* once end of input has been returned, every later token is end of input
EofIsFinal ==
    \A k, m \in 1..Tokens(1) :
        (k < m /\ lex[1].returned[k] = EndOfInput) => lex[1].returned[m] = EndOfInput

\* end of input is returned only when every line of the file has been read
EofAfterLastLine ==
    AtEndOfInput(lex[1]) => lex[1].fpos = Len(lex[1].file)

\* each unterminated quoted string of the file came out as one STRING token
\* holding the text up to the end of its line buffer
UnterminatedQuoteIsOneToken ==
    AtEndOfInput(lex[1]) =>
    \A line \in DOMAIN UnterminatedLines :
        Cardinality({k \in 1..Tokens(1) :
                        lex[1].returned[k] = Token("STRING", UnterminatedLines[line], 0)})
            = Cardinality({n \in 1..Len(lex[1].file) : lex[1].file[n] = line})

\* C28: a caller that goes on asking is eventually given end of input, and
\* is given it only after the last line was read; after that it is given
\* nothing but end of input; and an unterminated quoted string comes out as
\* one STRING token with the text up to the end of the line buffer.
C28_EndOfInputReached ==
    /\ <>AtEndOfInput(lex[1])
    /\ [](EofIsFinal /\ EofAfterLastLine /\ UnterminatedQuoteIsOneToken)

\* end of input returned MaxEofCalls times after a file that ends inside a
\* quoted string
C28_Witness ==
    /\ EofCount = MaxEofCalls
    /\ lex[1].file = <<"3 vendedor \"sin cerrar\n", "4 puede \"abierta">>
    /\ Tokens(1) = 6 + MaxEofCalls
    /\ lex[1].returned[6] = Token("STRING", "abierta", 0)

(***************************************************************************)
(* The identifiers one output declares.                                    *)
(***************************************************************************)

\* the string, subject, asset and clause declarations of a text, in order
Declarations(code) ==
    SelectSeq(code, LAMBDA st : st.kind \in {"string", "subject", "asset", "clause"})

\* C29: in one generated output no two string, subject, asset or clause
\* declarations share a name.
C29_IdentifiersDistinct ==
    Generated =>
    LET decl == Declarations(kelsen_code) IN
    \A i, j \in 1..Len(decl) : i # j => decl[i].name # decl[j].name

\* the part of C29 about repeated action texts: the assets and the clauses
\* of the norms are told apart by the position of the norm
NormAssetsDistinct ==
    Generated =>
    LET assets == NormAssetsOf(kelsen_code) IN
    \A i, j \in 1..Len(assets) : i # j => assets[i].name # assets[j].name

\* two subjects declared under one name, for roles that differ only in case
SubjectDeclaredTwice ==
    /\ Generated
    /\ \E i, j \in 1..Len(SubjectsOf(kelsen_code)) :
          /\ i < j
          /\ SubjectsOf(kelsen_code)[i].name = SubjectsOf(kelsen_code)[j].name
    /\ schema.norms[1].role # schema.norms[2].role

\* the string of an action declared under the name of a violation's string
ActionStringNamedAsViolationString ==
    /\ Generated
    /\ Len(schema.violations) = 1
    /\ schema.norms[1].action = "violation string"
    /\ Cardinality({i \in StatementsOf(kelsen_code, "string") :
                       kelsen_code[i].name = "violation_string_1"}) = 2

\* the string of an action declared under the name of the institution's string
ActionStringNamedAsInstitution ==
    /\ Generated
    /\ schema.institution.name = "pagar_1"
    /\ Cardinality({i \in StatementsOf(kelsen_code, "string") :
                       kelsen_code[i].name = "pagar_1"}) = 2

(***************************************************************************)
(* SpecWalk: schema_apply_automated_norms taken step by step.  The first   *)
(* step computes the id counter and runs tiers 1 and 2; then                *)
(* apply_conditional_on_id walks the norm list one norm at a time, under    *)
(* configurations whose conditional_on_id keys name user norms and the ids  *)
(* the injected norms are given.  `answer` holds the locals of the walk:    *)
(* user_norm, the position the walk has reached (past the end of the list   *)
(* for NULL), and the counter next_norm_id points to.                       *)
(***************************************************************************)
MaxWalkNorms == 20

WalkNumbers == {1, 99, 1000}

WalkUserNormLists ==
    UNION {{[i \in 1..n |-> create_norm(ns[i], IF i % 2 = 1 THEN "comprador" ELSE "vendedor",
                                        "DEONTIC_OBLIGATION", "pagar")] :
               ns \in {f \in [1..n -> WalkNumbers] :
                          \A i, k \in 1..n : i # k => f[i] # f[k]}}
           : n \in 0..MaxUserNorms}

\* conditional_on_id objects: the key of a user norm and keys that are ids
\* of injected norms, each absent or with one or two rules
WalkConditionals ==
    {k1 \o k100 \o k101 \o k102 :
        k1 \in {<<>>, <<[key |-> "1", value |-> <<ConditionalRule>>]>>},
        k100 \in {<<>>, <<[key |-> "100", value |-> <<ConditionalRule>>]>>,
                  <<[key |-> "100", value |-> <<ConditionalRule, ConditionalRule>>]>>},
        k101 \in {<<>>, <<[key |-> "101", value |-> <<ConditionalRule>>]>>,
                  <<[key |-> "101", value |-> <<ConditionalRule, ConditionalRule>>]>>},
        k102 \in {<<>>, <<[key |-> "102", value |-> <<ConditionalRule>>]>>}}

WalkDocuments ==
    {NoAutomatedNorms}
    \cup [present : {TRUE},
          domain_defaults : {<<>>, <<[key |-> EnrichDomain, value |-> <<DefaultRule>>]>>},
          universal_templates : {<<>>, <<[key |-> EnrichDomain, value |-> <<TemplateRule>>]>>},
          conditional_on_id : WalkConditionals]

NoWalk == [user_norm |-> 0, next_norm_id |-> 0]

InitWalk ==
    /\ \E ns \in WalkUserNormLists :
          schema = [set_institution(create_schema, "Compraventa", "INST_CONTRACT",
                                    "MULT_MULTIPLE", EnrichDomain)
                       EXCEPT !.norms = ns]
    /\ argv = [schema |-> schema]
    /\ \E doc \in WalkDocuments :
          config = <<[automated_norms |-> doc] @@ EmptyConfig>>
    /\ lex = <<>>
    /\ parser = <<>>
    /\ kelsen_code = NoCode
    /\ pc = "inject"
    /\ exit_code = Running
    /\ query = NoQuery
    /\ answer = NoWalk

\* schema_apply_automated_norms up to the call of apply_conditional_on_id:
\* the early returns, the id counter, tiers 1 and 2, and
\* `Norm* user_norm = schema->norms`
StartInjection ==
    /\ pc = "inject"
    /\ LET automated_norms_config == config_get_automated_norms(config[1]) IN
       IF ~schema.allocated \/ ~automated_norms_config.present
       THEN /\ pc' = "injected"
            /\ UNCHANGED <<schema, answer>>
       ELSE LET st0 == [schema |-> schema, next_norm_id |-> first_automated_norm_id(schema)]
                st1 == apply_domain_defaults(st0, automated_norms_config.domain_defaults)
                st2 == apply_universal_templates(st1,
                                                 automated_norms_config.universal_templates)
            IN  /\ schema' = st2.schema
                /\ answer' = [user_norm |-> 1, next_norm_id |-> st2.next_norm_id]
                /\ pc' = "walk"
    /\ UNCHANGED <<lex, parser, config, kelsen_code, exit_code, query, argv>>

\* the walk has a norm to look at
WalkStepEnabled ==
    pc = "walk" /\ answer.user_norm <= Len(schema.norms) /\ Len(schema.norms) < MaxWalkNorms

\* one turn of `while (user_norm != NULL)`: a norm numbered from 1000 is
\* passed over; for any other the rules under the key of its number are
\* appended; then `user_norm = user_norm->next`
WalkStep ==
    /\ WalkStepEnabled
    /\ LET user_norm == schema.norms[answer.user_norm]
           st == [schema |-> schema, next_norm_id |-> answer.next_norm_id]
           after == IF user_norm.number >= GeneratedFrom THEN st
                    ELSE conditional_rules(
                             st, cJSON_GetObjectItem(
                                     config[1].automated_norms.conditional_on_id,
                                     ToString(user_norm.number)), 1)
       IN  /\ schema' = after.schema
           /\ answer' = [user_norm |-> answer.user_norm + 1,
                         next_norm_id |-> after.next_norm_id]
    /\ UNCHANGED <<lex, parser, config, kelsen_code, pc, exit_code, query, argv>>

\* user_norm == NULL: the walk is over and schema_apply_automated_norms returns
WalkEnd ==
    /\ pc = "walk"
    /\ answer.user_norm > Len(schema.norms)
    /\ pc' = "injected"
    /\ UNCHANGED <<lex, parser, config, schema, kelsen_code, exit_code, query, answer,
                   argv>>

NextWalk == StartInjection \/ WalkStep \/ WalkEnd

SpecWalk == InitWalk /\ [][NextWalk]_vars

\* The function runs to its end once it is called, nothing in it waits: weak
\* fairness of each of its steps.  WF_vars(A) is written out for each step
\* A, with ENABLED <<A>>_vars replaced by the guard of A, to which it is
\* equal because every step changes pc or answer.user_norm.
SpecWalkLive ==
    /\ SpecWalk
    /\ ([]<>(pc # "inject") \/ []<><<StartInjection>>_vars)
    /\ ([]<>(~WalkStepEnabled) \/ []<><<WalkStep>>_vars)
    /\ ([]<>(~(pc = "walk" /\ answer.user_norm > Len(schema.norms)))
        \/ []<><<WalkEnd>>_vars)

\* the norms the walk of tier 3 has appended so far that were themselves
\* looked up and had rules under their number
AppendedAndFollowed ==
    {i \in (Len(argv.schema.norms) + 1)..Len(schema.norms) :
        /\ i < answer.user_norm
        /\ schema.norms[i].number < GeneratedFrom
        /\ RulesFor(config[1].automated_norms.conditional_on_id,
                    ToString(schema.norms[i].number)) # <<>>}

\* the walk step by step adds what apply_conditional_on_id adds
WalkAsConditionalOnId ==
    pc = "injected" => schema = schema_apply_automated_norms(argv.schema, config[1])

\* C30: schema_apply_automated_norms, once called, returns: the walk of
\* tier 3 over the list it is appending to reaches the end of the list, and
\* the list stays shorter than MaxWalkNorms norms.
C30_InjectionTerminates ==
    /\ <>(pc = "injected")
    /\ [](Len(schema.norms) < MaxWalkNorms)

\* the walk is over after it went through norms it had appended itself, two
\* of which had rules under their own numbers
C30_Witness ==
    /\ pc = "injected"
    /\ Cardinality(AppendedAndFollowed) >= 2
    /\ answer.user_norm = Len(schema.norms) + 1

====
